---- MODULE Spec2Model ----
(***************************************************************************)
(* DOM tree compaction and candidate-scoped pruning                         *)
(* (SPA/src/data_utils/dom_utils.py, format_prompt_utils.py).              *)
(*                                                                         *)
(* A tree is a sequence of nodes in document order (the order of           *)
(* xpath("//*")).  Node i holds its tag, its attribute dictionary, its     *)
(* text, the index of its parent (0 for the root) and whether it is still  *)
(* attached.  A deep copy keeps every node at its index, so a node of the  *)
(* input and its copy in the output share an index.  Splicing a single     *)
(* child into the place of its parent and removing a subtree both keep     *)
(* index order equal to document order.                                    *)
(***************************************************************************)
EXTENDS Integers, Sequences, FiniteSets, TLC

VARIABLES
    pc,                 \* which call was made last
    dom_tree,           \* the tree handed to clean_tree / prune_tree / get_tree_repr
    all_candidate_ids,  \* clean_tree: the must-keep identifiers
    new_tree,           \* clean_tree: the tree the last call returned
    prev_tree,          \* clean_tree: the tree the call before the last returned
    candidate_set,      \* prune_tree: the candidate identifiers, in iteration order
    max_depth,          \* prune_tree: depth bound of the descendant step
    max_children,       \* prune_tree: number of descendants kept
    max_sibling,        \* prune_tree: radius of the sibling window
    pruned,             \* prune_tree: what the call returned, or the error it raised
    id_mapping,         \* get_tree_repr: the caller's identifier map
    id_mapping_default, \* get_tree_repr: the dictionary its id_mapping parameter defaults to
    max_value_length,   \* get_attribute_repr: number of tokens kept of one attribute value
    max_length,         \* get_attribute_repr: number of tokens kept of the meta buffer
    tree_repr,          \* get_tree_repr: the markup tree of the last call
    repr_text,          \* get_tree_repr: the text the last call returned
    seen_ids,           \* backend identifiers met on non-text nodes so far
    index,              \* generate_option_name: the index
    name,               \* generate_option_name: the letter code, or the error
    code,               \* get_index_from_option_name: the letter code
    element_id,         \* get_index_from_option_name: the index, or the error
    choices,            \* the choices: (backend identifier, label text) pairs
    gt,                 \* data_format_input_multichoice: the ground-truth identifier
    options,            \* the enumeration printed: (letter, text) lines, or the error
    seq_target          \* data_format_input_multichoice: the letter of the target

cleanVarsButTree == <<all_candidate_ids, new_tree, prev_tree>>
cleanVars == <<dom_tree, all_candidate_ids, new_tree, prev_tree>>
pruneVars == <<candidate_set, max_depth, max_children, max_sibling, pruned>>
reprVars == <<id_mapping, id_mapping_default, max_value_length, max_length, tree_repr,
              repr_text, seen_ids>>
letterVars == <<index, name, code, element_id>>
formatVars == <<choices, gt, options, seq_target>>

vars == <<pc, cleanVars, pruneVars, reprVars, letterVars, formatVars>>

\* What a call returns: a value, or the exception it raised.
Ok(v) == [ok |-> TRUE, val |-> v]
Raise(e) == [ok |-> FALSE, err |-> e]
None == [ok |-> FALSE, err |-> "not called"]

\* The variables of the calls a specification does not make.
PruneIdle ==
    /\ candidate_set = {}
    /\ max_depth = 0
    /\ max_children = 0
    /\ max_sibling = 0
    /\ pruned = None

CleanIdle ==
    /\ all_candidate_ids = {}
    /\ new_tree = <<>>
    /\ prev_tree = <<>>

\* id_mapping = {}
EmptyMap == [k \in {} |-> 0]

ReprIdle ==
    /\ id_mapping = EmptyMap
    /\ id_mapping_default = EmptyMap
    /\ max_value_length = 5
    /\ max_length = 20
    /\ tree_repr = None
    /\ repr_text = ""
    /\ seen_ids = {}

LetterIdle ==
    /\ index = 0
    /\ name = None
    /\ code = ""
    /\ element_id = None

\* gt = -1: no ground truth.  No node carries this identifier.
NoGt == "-1"

FormatIdle ==
    /\ choices = <<>>
    /\ gt = NoGt
    /\ options = None
    /\ seq_target = ""

\* ------------------------------------------------------------------ bounds

\* Largest number of nodes of an input tree.
MaxNodes == 4

\* ----------------------------------------------------------------- strings

Max(a, b) == IF a >= b THEN a ELSE b
Min(a, b) == IF a <= b THEN a ELSE b

CharAt(s, i) == SubSeq(s, i, i)

\* The characters the regular expression class \s matches, among those used.
IsSpace(c) == c \in {" ", "\t", "\n"}

\* re.sub(r"\s+", " ", text): every maximal run of whitespace becomes one space.
RECURSIVE SubWhitespace(_, _)
SubWhitespace(s, i) ==
    IF i > Len(s) THEN ""
    ELSE IF IsSpace(CharAt(s, i))
         THEN (IF i > 1 /\ IsSpace(CharAt(s, i - 1)) THEN "" ELSE " ")
              \o SubWhitespace(s, i + 1)
         ELSE CharAt(s, i) \o SubWhitespace(s, i + 1)

\* The first position from i on that holds no whitespace, Len(s) + 1 when
\* there is none.
RECURSIVE FirstSolid(_, _)
FirstSolid(s, i) ==
    IF i > Len(s) \/ ~IsSpace(CharAt(s, i)) THEN i ELSE FirstSolid(s, i + 1)

\* The last position up to i that holds no whitespace, 0 when there is none.
RECURSIVE LastSolid(_, _)
LastSolid(s, i) ==
    IF i = 0 \/ ~IsSpace(CharAt(s, i)) THEN i ELSE LastSolid(s, i - 1)

\* str.strip(): leading and trailing whitespace removed.
Strip(s) == SubSeq(s, FirstSolid(s, 1), LastSolid(s, Len(s)))

\* clean_text (text = None is the empty string here: both clean to "").
clean_text(text) == Strip(SubWhitespace(text, 1))

\* str.split(): the maximal runs of non-whitespace, in order.
RECURSIVE SplitFrom(_, _, _)
SplitFrom(s, i, cur) ==
    IF i > Len(s) THEN (IF cur = "" THEN <<>> ELSE <<cur>>)
    ELSE IF IsSpace(CharAt(s, i))
         THEN (IF cur = "" THEN <<>> ELSE <<cur>>) \o SplitFrom(s, i + 1, "")
         ELSE SplitFrom(s, i + 1, cur \o CharAt(s, i))

Split(s) == SplitFrom(s, 1, "")

\* " ".join(seq)
RECURSIVE Join(_)
Join(seq) ==
    IF Len(seq) = 0 THEN ""
    ELSE IF Len(seq) = 1 THEN seq[1]
    ELSE seq[1] \o " " \o Join(Tail(seq))

UpperCase == <<"A", "B", "C", "D", "E", "F", "G", "H", "I", "J", "K", "L", "M",
               "N", "O", "P", "Q", "R", "S", "T", "U", "V", "W", "X", "Y", "Z">>
LowerCase == <<"a", "b", "c", "d", "e", "f", "g", "h", "i", "j", "k", "l", "m",
               "n", "o", "p", "q", "r", "s", "t", "u", "v", "w", "x", "y", "z">>

LowerChar(c) ==
    IF \E k \in 1..26 : UpperCase[k] = c
    THEN LowerCase[CHOOSE k \in 1..26 : UpperCase[k] = c]
    ELSE c

\* str.lower()
RECURSIVE LowerFrom(_, _)
LowerFrom(s, i) ==
    IF i > Len(s) THEN "" ELSE LowerChar(CharAt(s, i)) \o LowerFrom(s, i + 1)

Lower(s) == LowerFrom(s, 1)

\* sub occurs in s
Contains(s, sub) ==
    \E i \in 1..(Len(s) - Len(sub) + 1) : SubSeq(s, i, i + Len(sub) - 1) = sub

\* re.findall(r"\S*icon\S*", value, re.IGNORECASE): the whitespace-separated
\* tokens that contain "icon" in any letter case, in order.
IconTexts(value) ==
    SelectSeq(Split(value), LAMBDA tok : Contains(Lower(tok), "icon"))

\* ------------------------------------------------------------------- trees

EmptyAttrib == [a \in {} |-> ""]

Node(tag, attrib, text, parent) ==
    [tag |-> tag, attrib |-> attrib, text |-> text, parent |-> parent, alive |-> TRUE]

Get(attrib, attr, default) ==
    IF attr \in DOMAIN attrib THEN attrib[attr] ELSE default

Pop(attrib, attr) == [a \in (DOMAIN attrib) \ {attr} |-> attrib[a]]

Put(attrib, attr, value) ==
    [a \in (DOMAIN attrib) \cup {attr} |-> IF a = attr THEN value ELSE attrib[a]]

\* xpath("//*"): the attached nodes, in document order (increasing index).
Alive(tree) == {i \in 1..Len(tree) : tree[i].alive}

\* node.getchildren()
Children(tree, i) == {j \in Alive(tree) : tree[j].parent = i}

\* xpath("ancestor::*"): the proper ancestors of node i.
RECURSIVE Ancestors(_, _)
Ancestors(tree, i) ==
    IF tree[i].parent = 0 THEN {}
    ELSE {tree[i].parent} \cup Ancestors(tree, tree[i].parent)

\* The attached nodes below node i.
Descendants(tree, i) == {j \in Alive(tree) : i \in Ancestors(tree, j)}

HasTextChild(tree, i) == \E j \in Children(tree, i) : tree[j].tag = "text"

\* parent.remove(node): the node goes, and its subtree with it.
Remove(tree, i) ==
    [j \in 1..Len(tree) |->
        IF j = i \/ i \in Ancestors(tree, j)
        THEN [tree[j] EXCEPT !.alive = FALSE]
        ELSE tree[j]]

\* for child in node.getchildren(): node.addprevious(child)
\* node.getparent().remove(node)
\* The children of node i take its place under its parent, then i is removed.
Splice(tree, i) ==
    [j \in 1..Len(tree) |->
        IF j = i THEN [tree[j] EXCEPT !.alive = FALSE]
        ELSE IF tree[j].alive /\ tree[j].parent = i
             THEN [tree[j] EXCEPT !.parent = tree[i].parent]
             ELSE tree[j]]

\* The attached part of a tree with its nodes renumbered 1..k in document
\* order: two trees are structurally identical when these are equal.
Canon(tree) ==
    LET live == Alive(tree)
        rank(i) == Cardinality({j \in live : j <= i})
        nth(k) == CHOOSE i \in live : rank(i) = k
    IN  [k \in 1..Cardinality(live) |->
            LET i == nth(k)
            IN  [tag |-> tree[i].tag, attrib |-> tree[i].attrib,
                 text |-> tree[i].text,
                 parent |-> IF tree[i].parent = 0 THEN 0 ELSE rank(tree[i].parent)]]

\* ------------------------------------------------------------- clean_tree

\* A mutant: new_tree = dom_tree, the loop works on the caller's tree.
SameObject(tree) == [tree |-> tree, shared |-> TRUE]

\* copy.deepcopy(tree): a new tree equal to the argument, which shares no node
\* with it.
deepcopy(tree) == [tree |-> tree, shared |-> FALSE]

\* The caller's tree after a call that copied it and left the copy as result:
\* what is done to a tree is seen through every name of that tree.
ArgumentAfter(tree, result) == IF deepcopy(tree).shared THEN result ELSE tree

salient_attributes ==
    {"alt", "aria_description", "aria_label", "aria_role", "input_checked",
     "input_value", "label", "name", "option_selected", "placeholder", "role",
     "text_value", "title", "type", "value"}

\* A mutant: the icon tokens of a class are matched in lower case only.
CleanAttrCaseSensitive(tag, attr, value) ==
    IF attr = "class" /\ value # "" /\ tag = "svg"
    THEN LET icon_texts == SelectSeq(Split(value), LAMBDA tok : Contains(tok, "icon"))
         IN  IF Len(icon_texts) > 0 THEN {Join(icon_texts)} ELSE {}
    ELSE IF attr \in salient_attributes
    THEN IF ~(   (attr = "role" /\ value \in {"presentation", "none", "link"})
              \/ (attr = "type" /\ value = "hidden"))
         THEN (IF clean_text(value) # "" THEN {clean_text(value)} ELSE {})
         ELSE {}
    ELSE IF attr # "backend_node_id" THEN {}
    ELSE {value}

\* A mutant: the salient values that are kept are kept as they are.
CleanAttrUnnormalized(tag, attr, value) ==
    IF attr = "class" /\ value # "" /\ tag = "svg"
    THEN LET icon_texts == SelectSeq(Split(value),
                                     LAMBDA tok : Contains(Lower(tok), "icon"))
         IN  IF Len(icon_texts) > 0 THEN {Join(icon_texts)} ELSE {}
    ELSE IF attr \in salient_attributes
    THEN IF ~(   (attr = "role" /\ value \in {"presentation", "none", "link"})
              \/ (attr = "type" /\ value = "hidden"))
         THEN (IF clean_text(value) # "" THEN {value} ELSE {})
         ELSE {}
    ELSE IF attr # "backend_node_id" THEN {}
    ELSE {value}

\* The body of "for attr in node.attrib" for one attribute: the set holding
\* the value the attribute is left with, or the empty set when it is popped.
\* The loop runs over the keys as they were before it, and what it does to an
\* attribute depends on that attribute's own value only.
CleanAttr(tag, attr, value) ==
    IF attr = "class" /\ value # "" /\ tag = "svg"
    THEN LET icon_texts ==
                 SelectSeq([k \in 1..Len(IconTexts(value)) |->
                               clean_text(IconTexts(value)[k])],
                           LAMBDA t : t # "")
         IN  IF Len(icon_texts) > 0 THEN {Join(icon_texts)} ELSE {}
    ELSE IF attr \in salient_attributes
    THEN IF ~(   (attr = "role" /\ value \in {"presentation", "none", "link"})
              \/ (attr = "type" /\ value = "hidden"))
         THEN (IF clean_text(value) # "" THEN {clean_text(value)} ELSE {})
         ELSE {}
    ELSE IF attr # "backend_node_id" THEN {}
    ELSE {value}

CleanAttrib(tag, attrib) ==
    [a \in {b \in DOMAIN attrib : CleanAttr(tag, b, attrib[b]) # {}} |->
        CHOOSE v \in CleanAttr(tag, a, attrib[a]) : TRUE]

\* A mutant: an element that holds text of its own is not collapsed.
CleanCollapsibleUnlessText(tree, i, ids) ==
    /\ Get(tree[i].attrib, "backend_node_id", "") \notin ids
    /\ Cardinality(DOMAIN tree[i].attrib) = 1
    /\ ~HasTextChild(tree, i)
    /\ tree[i].text = ""
    /\ tree[i].parent # 0
    /\ Cardinality(Children(tree, i)) <= 1

\* A mutant: the must-keep identifiers are not looked at.
CleanCollapsibleMustKeep(tree, i, ids) ==
    /\ Cardinality(DOMAIN tree[i].attrib) = 1
    /\ ~HasTextChild(tree, i)
    /\ tree[i].parent # 0
    /\ Cardinality(Children(tree, i)) <= 1

\* The test of lines 101-107, on a node whose attributes are already reduced.
CleanCollapsible(tree, i, ids) ==
    /\ Get(tree[i].attrib, "backend_node_id", "") \notin ids
    /\ Cardinality(DOMAIN tree[i].attrib) = 1
    /\ ~HasTextChild(tree, i)
    /\ tree[i].parent # 0
    /\ Cardinality(Children(tree, i)) <= 1

\* One iteration of the loop of clean_tree, on node i.
CleanNode(tree, i, ids) ==
    LET t1 == [tree EXCEPT ![i].attrib = CleanAttrib(tree[i].tag, tree[i].attrib)]
    IN  IF t1[i].tag = "text"
        THEN LET value == clean_text(t1[i].text)
             IN  IF Len(value) > 0
                 THEN [t1 EXCEPT ![i].text = value]
                 ELSE Remove(t1, i)
        ELSE IF CleanCollapsible(t1, i, ids) THEN Splice(t1, i)
        ELSE t1

\* A mutant: the nodes are visited in document order.
RECURSIVE CleanLoopForward(_, _, _)
CleanLoopForward(tree, i, ids) ==
    IF i = 0 THEN tree
    ELSE CleanLoopForward(IF tree[Len(tree) - i + 1].alive
                          THEN CleanNode(tree, Len(tree) - i + 1, ids)
                          ELSE tree,
                          i - 1, ids)

\* for node in new_tree.xpath("//*")[::-1]: the nodes in reverse document order.
\* A node is detached only in its own iteration or after it, so the list taken
\* before the loop holds attached nodes only when they are reached.
RECURSIVE CleanLoop(_, _, _)
CleanLoop(tree, i, ids) ==
    IF i = 0 THEN tree
    ELSE CleanLoop(IF tree[i].alive THEN CleanNode(tree, i, ids) ELSE tree, i - 1, ids)

clean_tree(tree, ids) == CleanLoop(deepcopy(tree).tree, Len(tree), ids)

\* ----------------------------------------------------------- input trees

\* The parent vectors of the trees with n nodes numbered in document order:
\* the parent of node i is node i-1 or one of its ancestors.
RECURSIVE PathToRoot(_, _)
PathToRoot(p, i) == IF i = 0 THEN {} ELSE {i} \cup PathToRoot(p, p[i])

Shapes(n) ==
    {p \in [1..n -> 0..(n - 1)] :
        /\ p[1] = 0
        /\ \A i \in 2..n : p[i] \in PathToRoot(p, i - 1)}

\* A tree from a parent vector and one payload per node.  A payload with
\* ident = TRUE carries a backend_node_id, unique in the snapshot: the decimal
\* string of the node's position.
MkTree(p, pay) ==
    [i \in DOMAIN p |->
        Node(pay[i].tag,
             IF pay[i].ident
             THEN Put(pay[i].attrib, "backend_node_id", ToString(i))
             ELSE pay[i].attrib,
             pay[i].text, p[i])]

\* Plain text is held by leaf nodes of tag "text"; the root is an element.
WellFormed(tree) ==
    /\ tree[1].tag # "text"
    /\ \A i \in 1..Len(tree) : tree[i].tag = "text" => Children(tree, i) = {}

\* Identifiers are unique within a snapshot.
UniqueIds(tree) ==
    \A i, j \in 1..Len(tree) :
        /\ i # j
        /\ "backend_node_id" \in DOMAIN tree[i].attrib
        /\ "backend_node_id" \in DOMAIN tree[j].attrib
        => tree[i].attrib["backend_node_id"] # tree[j].attrib["backend_node_id"]

\* The trees of at most size nodes whose nodes are drawn from payloads.
TreesOver(payloads, size) ==
    UNION {{t \in {MkTree(p, pay) : p \in Shapes(n), pay \in [1..n -> payloads]} :
               WellFormed(t) /\ UniqueIds(t)} : n \in 1..size}

\* The backend identifiers of a tree.
IdsOf(tree) ==
    {tree[i].attrib["backend_node_id"] :
        i \in {j \in Alive(tree) : "backend_node_id" \in DOMAIN tree[j].attrib}}

Payload(tag, attrib, text, ident) ==
    [tag |-> tag, attrib |-> attrib, text |-> text, ident |-> ident]

\* Raw snapshot nodes: wrappers with and without an identifier, values with
\* surrounding whitespace, non-salient attributes, an icon graphic, text.
RawPayloads ==
    { Payload("div", EmptyAttrib, "", TRUE),
      Payload("div", EmptyAttrib, "", FALSE),
      Payload("a", ("role" :> " presentation") @@ ("href" :> "x"), "", TRUE),
      Payload("img", ("role" :> "presentation") @@ ("alt" :> "  logo  "), "", FALSE),
      Payload("svg", ("class" :> "big Icon-x") @@ ("title" :> "t") @@ ("type" :> "hidden"),
              "", TRUE),
      Payload("text", EmptyAttrib, "Hi  there", FALSE),
      Payload("text", EmptyAttrib, " \n", TRUE) }

\* ------------------------------------------------- sanitizing a snapshot

InitClean ==
    /\ pc = "start"
    /\ dom_tree \in TreesOver(RawPayloads, MaxNodes)
    /\ all_candidate_ids \in {ids \in SUBSET IdsOf(dom_tree) : Cardinality(ids) <= 1}
    /\ new_tree = <<>>
    /\ prev_tree = <<>>
    /\ PruneIdle /\ ReprIdle /\ LetterIdle /\ FormatIdle

\* new_tree = clean_tree(dom_tree, all_candidate_ids)
CleanTree ==
    /\ pc = "start"
    /\ new_tree' = clean_tree(dom_tree, all_candidate_ids)
    /\ dom_tree' = ArgumentAfter(dom_tree, new_tree')
    /\ prev_tree' = new_tree
    /\ pc' = "cleaned"
    /\ UNCHANGED <<all_candidate_ids, pruneVars, reprVars, letterVars, formatVars>>

\* The sanitized tree is sanitized again, with the same must-keep set.
CleanAgain ==
    /\ pc = "cleaned"
    /\ new_tree' = clean_tree(new_tree, all_candidate_ids)
    /\ prev_tree' = ArgumentAfter(new_tree, new_tree')
    /\ pc' = "recleaned"
    /\ UNCHANGED <<dom_tree, all_candidate_ids, pruneVars, reprVars, letterVars, formatVars>>

NextClean == CleanTree \/ CleanAgain

SpecClean == InitClean /\ [][NextClean]_vars

\* C1: sanitizing is idempotent: sanitizing the tree clean_tree returned, with
\* the same must-keep set, returns a structurally identical tree.
C1_CleanIdempotent ==
    pc = "recleaned" => Canon(new_tree) = Canon(prev_tree)

\* ------------------------------------------------------------ option names

\* Largest index handed to generate_option_name.
MaxIndex == 720

\* The number of letters of string.ascii_uppercase.
Letters == Len(UpperCase)

\* The indices that have a one-letter or a two-letter code.
TwoLetterCodes == Letters + Letters * Letters

\* string.ascii_uppercase[k], for k >= 0: an IndexError past the last letter.
AsciiUppercaseAt(k) ==
    IF k < Letters THEN Ok(UpperCase[k + 1]) ELSE Raise("IndexError")

\* string.ascii_uppercase.index(c): a ValueError when c is not in it.
AsciiUppercaseIndex(c) ==
    IF \E k \in 1..Letters : UpperCase[k] = c
    THEN Ok((CHOOSE k \in 1..Letters : UpperCase[k] = c) - 1)
    ELSE Raise("ValueError")

\* The body of the else branch of generate_option_name, with the letter
\* index computed from index - offset.
OptionNameFrom(idx, offset) ==
    LET first_letter == AsciiUppercaseAt((idx - offset) \div Letters)
        second_letter == AsciiUppercaseAt((idx - offset) % Letters)
    IN  IF ~first_letter.ok THEN first_letter
        ELSE IF ~second_letter.ok THEN second_letter
        ELSE Ok(first_letter.val \o second_letter.val)

\* A mutant: the first letter is taken from index // 26.
GenerateNoOffset(idx) ==
    IF idx < Letters THEN AsciiUppercaseAt(idx)
    ELSE LET first_letter == AsciiUppercaseAt(idx \div Letters)
             second_letter == AsciiUppercaseAt((idx - Letters) % Letters)
         IN  IF ~first_letter.ok THEN first_letter
             ELSE Ok(first_letter.val \o second_letter.val)

\* A mutant: the letter indices wrap around instead of running off the alphabet.
GenerateWrapping(idx) ==
    IF idx < Letters THEN AsciiUppercaseAt(idx)
    ELSE Ok(UpperCase[(((idx - Letters) \div Letters) % Letters) + 1]
            \o UpperCase[((idx - Letters) % Letters) + 1])

generate_option_name(idx) ==
    IF idx < Letters THEN AsciiUppercaseAt(idx)
    ELSE OptionNameFrom(idx, Letters)

\* A mutant: str.find in place of str.index, -1 for a character not found.
GetIndexWithFind(nm) ==
    LET find(c) == IF AsciiUppercaseIndex(c).ok THEN AsciiUppercaseIndex(c).val ELSE -1
    IN  IF Len(nm) = 1 THEN Ok(find(nm))
        ELSE IF Len(nm) = 2
        THEN Ok(Letters + find(CharAt(nm, 1)) * Letters + find(CharAt(nm, 2)))
        ELSE Raise("Exception")

get_index_from_option_name(nm) ==
    IF Len(nm) = 1 THEN AsciiUppercaseIndex(nm)
    ELSE IF Len(nm) = 2
    THEN LET first_letter_index == AsciiUppercaseIndex(CharAt(nm, 1))
             second_letter_index == AsciiUppercaseIndex(CharAt(nm, 2))
         IN  IF ~first_letter_index.ok THEN first_letter_index
             ELSE IF ~second_letter_index.ok THEN second_letter_index
             ELSE Ok(Letters + first_letter_index.val * Letters + second_letter_index.val)
    ELSE Raise("Exception")

\* Letter codes a caller may hand to get_index_from_option_name: what the
\* reasoning model answered, well-formed or not.
AnswerCodes ==
    {"", "A", "Z", "a", "7", " ", "AA", "AZ", "ZZ", "Ab", "b4", "A ", "ABC", "ZZZ", "abcd"}

InitLetter ==
    /\ pc = "start"
    /\ index \in 0..MaxIndex
    /\ name = None
    /\ code = ""
    /\ element_id = None
    /\ dom_tree = <<>>
    /\ CleanIdle /\ PruneIdle /\ ReprIdle /\ FormatIdle

\* name = generate_option_name(index)
GenerateOptionName ==
    /\ pc = "start"
    /\ name' = generate_option_name(index)
    /\ pc' = "named"
    /\ UNCHANGED <<index, code, element_id, cleanVars, pruneVars, reprVars, formatVars>>

\* element_id = get_index_from_option_name(name), the code just generated
IndexOfOptionName ==
    /\ pc = "named"
    /\ name.ok
    /\ code' = name.val
    /\ element_id' = get_index_from_option_name(name.val)
    /\ pc' = "indexed"
    /\ UNCHANGED <<index, name, cleanVars, pruneVars, reprVars, formatVars>>

\* element_id = get_index_from_option_name(c), c a code from outside
IndexOfAnswer ==
    /\ pc = "start"
    /\ \E c \in AnswerCodes :
          /\ code' = c
          /\ element_id' = get_index_from_option_name(c)
    /\ pc' = "answered"
    /\ UNCHANGED <<index, name, cleanVars, pruneVars, reprVars, formatVars>>

NextLetter == GenerateOptionName \/ IndexOfOptionName \/ IndexOfAnswer

SpecLetter == InitLetter /\ [][NextLetter]_vars

IsUpperCode(nm) == \A k \in 1..Len(nm) : AsciiUppercaseIndex(CharAt(nm, k)).ok

\* C7: for every index i with 0 <= i < 702, generate_option_name(i) is one
\* uppercase letter when i < 26 and two uppercase letters otherwise, it differs
\* from the code of every smaller index, and get_index_from_option_name of it
\* is i.
C7_LetterRoundTrip ==
    index < TwoLetterCodes =>
        /\ pc = "named" =>
              /\ name.ok
              /\ Len(name.val) = (IF index < Letters THEN 1 ELSE 2)
              /\ IsUpperCode(name.val)
              /\ \A j \in 0..(index - 1) : generate_option_name(j) # name
        /\ pc = "indexed" => element_id = Ok(index)

C7_Witness == pc = "indexed" /\ index = TwoLetterCodes - 1 /\ code = "ZZ"

\* C8 as stated: for every index i >= 0, also i >= 702, generate_option_name(i)
\* returns a code and get_index_from_option_name of that code is i.
C8_RoundTripEveryIndex ==
    /\ pc = "named" => name.ok
    /\ pc = "indexed" => element_id = Ok(index)

\* C8 amended: for 0 <= i < 702 generate_option_name(i) returns a code whose
\* index is i; for i >= 702 it raises IndexError and returns no code.
C8_RoundTripUpTo702 ==
    /\ pc = "named" =>
          IF index < TwoLetterCodes THEN name.ok ELSE name = Raise("IndexError")
    /\ pc = "indexed" => index < TwoLetterCodes /\ element_id = Ok(index)

C8_Witness == pc = "named" /\ index = TwoLetterCodes /\ ~name.ok

\* C9 as stated: get_index_from_option_name fails only for codes longer than
\* two characters: a code of length at most 2 yields an index, a code of length
\* 3 or more the error.
C9_FailsOnlyWhenLong ==
    pc \in {"indexed", "answered"} =>
        IF Len(code) <= 2 THEN element_id.ok ELSE element_id = Raise("Exception")

\* C9 amended: get_index_from_option_name returns an index exactly for the
\* codes of one or two characters that are all uppercase letters A-Z; a code
\* of length 0 or of length 3 or more raises the wrong-length error, and a
\* code of length 1 or 2 with another character raises ValueError.
C9_FailsUnlessLetters ==
    pc \in {"indexed", "answered"} =>
        IF Len(code) \notin {1, 2} THEN element_id = Raise("Exception")
        ELSE IF IsUpperCode(code) THEN element_id.ok /\ element_id.val \in 0..(TwoLetterCodes - 1)
        ELSE element_id = Raise("ValueError")

C9_Witness == pc = "answered" /\ code = "b4" /\ element_id = Raise("ValueError")

\* ----------------------------------------------------------- get_tree_repr

\* The defaults of get_tree_repr and get_attribute_repr.
DefaultMaxValueLength == 5
DefaultMaxLength == 20

\* seq[:k]
Take(seq, k) == SubSeq(seq, 1, Min(Len(seq), k))

StartsWith(s, prefix) == Len(s) >= Len(prefix) /\ SubSeq(s, 1, Len(prefix)) = prefix

\* The attributes get_attribute_repr reads, in the order it reads them.
AttrOrder ==
    <<"role", "aria_role", "type", "alt", "aria_description", "aria_label", "label",
      "title", "name", "text_value", "value", "placeholder", "input_checked",
      "input_value", "option_selected", "class">>

\* The loop of get_attribute_repr from attribute k of AttrOrder on: acc holds
\* attr_values_set and attr_values.
RECURSIVE AttrValuesFrom(_, _, _, _)
AttrValuesFrom(attrib, k, max_value_length_, acc) ==
    IF k > Len(AttrOrder) THEN acc
    ELSE LET attr == AttrOrder[k]
             lowered == Lower(attrib[attr])
             value == Join(Take(SelectSeq(Split(lowered), LAMBDA v : Len(v) < 15),
                                max_value_length_))
             next == IF attr \notin DOMAIN attrib THEN acc
                     ELSE IF \/ lowered \in {"hidden", "none", "presentation", "null",
                                             "undefined"}
                             \/ StartsWith(lowered, "http")
                     THEN acc
                     ELSE IF value # "" /\ value \notin acc.set
                     THEN [set |-> acc.set \cup {value},
                           values |-> acc.values \o value \o " "]
                     ELSE acc
         IN  AttrValuesFrom(attrib, k + 1, max_value_length_, next)

\* A mutant: the meta buffer is not cut to max_length tokens.
GetAttributeReprUncut(attrib, max_value_length_, max_length_) ==
    LET attr_values ==
            AttrValuesFrom(attrib, 1, max_value_length_, [set |-> {}, values |-> ""]).values
        uid == Get(attrib, "backend_node_id", "")
        withId == IF uid # "" THEN Put(EmptyAttrib, "id", uid) ELSE EmptyAttrib
    IN  IF attr_values # ""
        THEN Put(withId, "meta", Join(Split(attr_values)))
        ELSE withId

\* get_attribute_repr: the attributes the node is left with.
get_attribute_repr(attrib, max_value_length_, max_length_) ==
    LET attr_values ==
            AttrValuesFrom(attrib, 1, max_value_length_, [set |-> {}, values |-> ""]).values
        uid == Get(attrib, "backend_node_id", "")
        withId == IF uid # "" THEN Put(EmptyAttrib, "id", uid) ELSE EmptyAttrib
    IN  IF attr_values # ""
        THEN Put(withId, "meta", Join(Take(Split(attr_values), max_length_)))
        ELSE withId

\* A mutant: the first integer handed out is 1.
MapIdentifierFromOne(mapping, bid) ==
    IF bid \in DOMAIN mapping THEN mapping
    ELSE Put(mapping, bid, Cardinality(DOMAIN mapping) + 1)

\* A mutant: the integer is assigned whether or not the identifier has one.
MapIdentifierAlways(mapping, bid) ==
    Put(mapping, bid, Cardinality(DOMAIN mapping))

\* if node.attrib["backend_node_id"] not in id_mapping:
\*     id_mapping[node.attrib["backend_node_id"]] = len(id_mapping)
MapIdentifier(mapping, bid) ==
    IF bid \in DOMAIN mapping THEN mapping
    ELSE Put(mapping, bid, Cardinality(DOMAIN mapping))

\* The loop of get_tree_repr over the attached nodes from node i on, in
\* document order; st holds the copied tree and the identifier map.
RECURSIVE ReprLoop(_, _, _, _)
ReprLoop(st, i, max_value_length_, max_length_) ==
    IF i > Len(st.tree) THEN st
    ELSE IF ~st.tree[i].alive THEN ReprLoop(st, i + 1, max_value_length_, max_length_)
    ELSE IF st.tree[i].tag # "text"
    THEN LET attrib == st.tree[i].attrib
             mapping == IF "backend_node_id" \in DOMAIN attrib
                        THEN MapIdentifier(st.id_mapping, attrib["backend_node_id"])
                        ELSE st.id_mapping
             renamed == IF "backend_node_id" \in DOMAIN attrib
                        THEN Put(attrib, "backend_node_id",
                                 ToString(mapping[attrib["backend_node_id"]]))
                        ELSE attrib
         IN  ReprLoop([tree |-> [st.tree EXCEPT ![i].attrib =
                                    get_attribute_repr(renamed, max_value_length_, max_length_)],
                       id_mapping |-> mapping],
                      i + 1, max_value_length_, max_length_)
    ELSE ReprLoop([st EXCEPT !.tree[i].text = Join(Take(Split(st.tree[i].text), max_length_))],
                  i + 1, max_value_length_, max_length_)

\* get_tree_repr, up to the markup tree the text is printed from (lines
\* 312-326), and the identifier map it returns.
get_tree_repr(tree, max_value_length_, max_length_, mapping) ==
    ReprLoop([tree |-> tree, id_mapping |-> mapping], 1, max_value_length_, max_length_)

\* The members of a set of node indices as a sequence in document order.
RECURSIVE InOrder(_)
InOrder(set) ==
    IF set = {} THEN <<>>
    ELSE LET first == CHOOSE i \in set : \A j \in set : i <= j
         IN  <<first>> \o InOrder(set \ {first})

\* F applied to the value of x: a step of a chain of string operations.
Then(x, F(_)) == CHOOSE r \in {F(v) : v \in {x}} : TRUE

\* s has sub at position i
Matches(s, i, sub) ==
    i + Len(sub) - 1 <= Len(s) /\ SubSeq(s, i, i + Len(sub) - 1) = sub

\* The first position at or after i where s has sub, 0 when there is none.
Find(s, i, sub) ==
    LET hits == {k \in i..(Len(s) - Len(sub) + 1) : Matches(s, k, sub)}
    IN  IF hits = {} THEN 0 ELSE CHOOSE k \in hits : \A j \in hits : k <= j

\* str.replace(old, new), from position i on: the occurrences are taken from
\* left to right and do not overlap.
RECURSIVE ReplaceFrom(_, _, _, _)
ReplaceFrom(s, i, old, new) ==
    LET k == Find(s, i, old)
    IN  IF k = 0 THEN SubSeq(s, i, Len(s))
        ELSE SubSeq(s, i, k - 1) \o new \o ReplaceFrom(s, k + Len(old), old, new)

Replace(s, old, new) == ReplaceFrom(s, 1, old, new)

\* re.sub of a pattern open(.*?)close (least = 0) or open(.+?)close
\* (least = 1), from position i on: each leftmost match is replaced by pre
\* followed by the group when keep, by pre alone otherwise.  The group ends at
\* the first close it can, and the dot matches no newline: an open with a
\* newline before the first close is no match, and without a close after an
\* open there is none after a later one.
RECURSIVE SubLazy(_, _, _, _, _, _, _)
SubLazy(s, i, open, close, least, pre, keep) ==
    LET k == Find(s, i, open)
        end == Find(s, k + Len(open) + least, close)
        group == SubSeq(s, k + Len(open), end - 1)
    IN  IF k = 0 \/ end = 0 THEN SubSeq(s, i, Len(s))
        ELSE IF Contains(group, "\n")
        THEN SubSeq(s, i, k) \o SubLazy(s, k + 1, open, close, least, pre, keep)
        ELSE SubSeq(s, i, k - 1) \o pre \o (IF keep THEN group ELSE "")
             \o SubLazy(s, end + Len(close), open, close, least, pre, keep)

\* What etree.tostring writes for the characters of markup in character data
\* and in attribute values.
EscapeText(s) ==
    LET ampersand(v) == Replace(v, "&", "&amp;")
        less(v) == Replace(v, "<", "&lt;")
        greater(v) == Replace(v, ">", "&gt;")
    IN  Then(Then(Then(s, ampersand), less), greater)

EscapeAttr(s) ==
    LET quot(v) == Replace(v, "\"", "&quot;")
    IN  Then(EscapeText(s), quot)

\* The attributes of a node of the markup tree in the order they were set: id
\* and meta on an element, the backend identifier a text node was left with.
MarkupAttrs == <<"id", "meta", "backend_node_id">>

RECURSIVE AttrsToString(_, _)
AttrsToString(attrib, k) ==
    IF k > Len(MarkupAttrs) THEN ""
    ELSE (IF MarkupAttrs[k] \in DOMAIN attrib
          THEN " " \o MarkupAttrs[k] \o "=\"" \o EscapeAttr(attrib[MarkupAttrs[k]]) \o "\""
          ELSE "")
         \o AttrsToString(attrib, k + 1)

\* etree.tostring(tree, encoding="unicode") of the subtree of node i; kids is
\* what is left of its children.  An element without text and children is
\* written <tag/>; a text node holds a string after line 326, so it is written
\* with both tags.
RECURSIVE tostring(_, _)
RECURSIVE KidsToString(_, _)
KidsToString(tree, kids) ==
    IF Len(kids) = 0 THEN ""
    ELSE tostring(tree, Head(kids)) \o KidsToString(tree, Tail(kids))

tostring(tree, i) ==
    LET kids == InOrder(Children(tree, i))
        start == "<" \o tree[i].tag \o AttrsToString(tree[i].attrib, 1)
    IN  IF Len(kids) = 0 /\ tree[i].text = "" /\ tree[i].tag # "text"
        THEN start \o "/>"
        ELSE start \o ">" \o EscapeText(tree[i].text) \o KidsToString(tree, kids)
             \o "</" \o tree[i].tag \o ">"

html_escape_table ==
    << <<"&quot;", "\"">>, <<"&amp;", "&">>, <<"&lt;", "<">>, <<"&gt;", ">">>,
       <<"&nbsp;", " ">>, <<"&ndash;", "-">>, <<"&rsquo;", "'">>, <<"&lsquo;", "'">>,
       <<"&ldquo;", "\"">>, <<"&rdquo;", "\"">>, <<"&#39;", "'">>, <<"&#40;", "(">>,
       <<"&#41;", ")">> >>

\* for k, v in html_escape_table: tree_repr = tree_repr.replace(k, v)
\* Every key starts with an ampersand and no value holds one, so a string
\* without ampersand is left as it is by this and every later replacement.
RECURSIVE Unescape(_, _)
Unescape(s, k) ==
    IF k > Len(html_escape_table) \/ ~Contains(s, "&") THEN s
    ELSE LET rest(v) == Unescape(v, k + 1)
         IN  Then(Replace(s, html_escape_table[k][1], html_escape_table[k][2]), rest)

\* Lines 327-357: the text get_tree_repr prints from the markup tree.
TreeReprText(tree, keep_html_brackets) ==
    LET root == CHOOSE i \in Alive(tree) : \A j \in Alive(tree) : i <= j
        quotes(v) == Replace(v, "\"", " ")
        meta(v) == Replace(v, "meta= ", "")
        id(v) == Replace(v, "id= ", "id=")
        space(v) == Replace(v, " >", ">")
        text(v) == SubLazy(v, 1, "<text>", "</text>", 0, "", TRUE)
        empty(v) == Replace(v, "/>", "$/$>")
        closing(v) == SubLazy(v, 1, "</", ">", 1, ")", FALSE)
        opening(v) == SubLazy(v, 1, "<", ">", 1, "(", TRUE)
        closed(v) == Replace(v, "$/$", ")")
        brackets(v) ==
            IF keep_html_brackets THEN v
            ELSE Then(Then(Then(Then(v, empty), closing), opening), closed)
        unescape(v) == Unescape(v, 1)
    IN  Then(Then(Then(Then(Then(Then(Then(Then(tostring(tree, root), quotes), meta), id),
                                  space), text), brackets), unescape), clean_text)

\* Largest number of nodes of a tree handed to get_tree_repr in a sequence of
\* calls that share one identifier map.
MaxReprNodes == 2

\* Nodes whose backend identifier does not follow from their position, so that
\* the trees of two calls can hold the same identifiers in another order.
ReprPayloads ==
    { Payload("span", ("backend_node_id" :> "7") @@ ("role" :> "Button"), "", FALSE),
      Payload("div", ("backend_node_id" :> "8"), "", FALSE),
      Payload("a", ("backend_node_id" :> "9") @@ ("title" :> "HTTP://x"), "", FALSE),
      Payload("div", ("alt" :> "Logo big"), "", FALSE),
      Payload("text", ("backend_node_id" :> "5"), "Hi", FALSE) }

\* The backend identifiers of the non-text nodes of a tree.
ElementIdsOf(tree) ==
    {tree[i].attrib["backend_node_id"] :
        i \in {j \in Alive(tree) : /\ tree[j].tag # "text"
                                   /\ "backend_node_id" \in DOMAIN tree[j].attrib}}

InitRepr ==
    /\ pc = "start"
    /\ dom_tree = <<>>
    /\ id_mapping = EmptyMap
    /\ id_mapping_default = EmptyMap
    /\ max_value_length = DefaultMaxValueLength
    /\ max_length = DefaultMaxLength
    /\ tree_repr = None
    /\ repr_text = ""
    /\ seen_ids = {}
    /\ CleanIdle /\ PruneIdle /\ LetterIdle /\ FormatIdle

\* tree_repr, id_mapping = get_tree_repr(t, id_mapping=id_mapping): one more
\* call with the map the calls before it filled.
GetTreeRepr ==
    /\ \E t \in TreesOver(ReprPayloads, MaxReprNodes) :
          LET r == get_tree_repr(t, DefaultMaxValueLength, DefaultMaxLength, id_mapping)
          IN  /\ dom_tree' = t
              /\ tree_repr' = Ok(r.tree)
              /\ repr_text' = TreeReprText(r.tree, FALSE)
              /\ id_mapping' = r.id_mapping
              /\ seen_ids' = seen_ids \cup ElementIdsOf(t)
    /\ pc' = "get_tree_repr"
    /\ UNCHANGED <<id_mapping_default, max_value_length, max_length,
                   all_candidate_ids, new_tree, prev_tree, pruneVars,
                   letterVars, formatVars>>

NextRepr == GetTreeRepr

SpecRepr == InitRepr /\ [][NextRepr]_vars

\* C2: identifier density: after any sequence of get_tree_repr calls that
\* share a map that started empty, the map is injective, its keys are the
\* backend identifiers seen on non-text nodes so far, and its integers are
\* exactly 0..N-1 for N such identifiers.
C2_IdentifierDensity ==
    /\ DOMAIN id_mapping = seen_ids
    /\ \A a, b \in DOMAIN id_mapping : id_mapping[a] = id_mapping[b] => a = b
    /\ {id_mapping[a] : a \in DOMAIN id_mapping} = 0..(Cardinality(seen_ids) - 1)

C2_Witness ==
    /\ Cardinality(seen_ids) = 3
    /\ id_mapping["9"] = 0
    /\ \E i \in 1..Len(dom_tree) : dom_tree[i].tag = "text"

\* C3: identifier stability: a get_tree_repr call neither changes nor removes
\* an entry the map had before it, and it renders every non-text node whose
\* identifier had an integer before the call with that integer.
C3_IdentifierStability ==
    [][\A b \in DOMAIN id_mapping :
          /\ b \in DOMAIN id_mapping'
          /\ id_mapping'[b] = id_mapping[b]
          /\ \A i \in 1..Len(dom_tree') :
                (/\ dom_tree'[i].tag # "text"
                 /\ Get(dom_tree'[i].attrib, "backend_node_id", "") = b)
                => Get(tree_repr'.val[i].attrib, "id", "") = ToString(id_mapping[b])]_vars

C3_Witness ==
    /\ Len(dom_tree) = 2
    /\ Get(dom_tree[1].attrib, "backend_node_id", "") = "7"
    /\ Get(dom_tree[2].attrib, "backend_node_id", "") = "9"
    /\ tree_repr.ok
    /\ tree_repr.val[1].attrib["id"] = "2"
    /\ tree_repr.val[2].attrib["id"] = "0"

\* -------------------------------------------------------------- prune_tree

\* get_descendants, as the sequence of the nodes it returns: kids is what is
\* left of "for child in node".
RECURSIVE DescendantsOf(_, _, _, _)
DescendantsOf(tree, kids, max_depth_, current_depth) ==
    IF Len(kids) = 0 THEN <<>>
    ELSE <<Head(kids)>>
         \o (IF current_depth + 1 > max_depth_ THEN <<>>
             ELSE DescendantsOf(tree, InOrder(Children(tree, Head(kids))),
                                max_depth_, current_depth + 1))
         \o DescendantsOf(tree, Tail(kids), max_depth_, current_depth)

get_descendants(tree, node, max_depth_, current_depth) ==
    IF current_depth > max_depth_ THEN <<>>
    ELSE DescendantsOf(tree, InOrder(Children(tree, node)), max_depth_, current_depth)

\* x.attrib.get("backend_node_id", "")
IdOf(tree, i) == Get(tree[i].attrib, "backend_node_id", "")

IdsOfSeq(tree, nodes) == {IdOf(tree, nodes[k]) : k \in 1..Len(nodes)}

\* dom_tree.xpath('//*[@backend_node_id="<candidate_id>"]')
NodesWithId(tree, candidate_id) ==
    {i \in Alive(tree) : /\ "backend_node_id" \in DOMAIN tree[i].attrib
                         /\ tree[i].attrib["backend_node_id"] = candidate_id}

\* siblings = [x for x in parent.getchildren() if x.tag != "text"]
ElementSiblings(tree, node) ==
    InOrder({j \in Children(tree, tree[node].parent) : tree[j].tag # "text"})

\* siblings.index(candidate_node), from 0
IndexIn(seq, x) == (CHOOSE k \in 1..Len(seq) : seq[k] = x) - 1

\* siblings[max(0, idx - radius) : idx + radius + 1]
SiblingWindow(siblings, idx_in_sibling, radius) ==
    SubSeq(siblings, Max(0, idx_in_sibling - radius) + 1,
           Min(Len(siblings), idx_in_sibling + radius + 1))

\* The body of "for candidate_id in candidate_set" for a candidate that has a
\* node: what it adds to nodes_to_keep, or the ValueError of siblings.index
\* for a candidate that is a text node with a parent.
KeepOfCandidate(tree, candidate_node, max_depth_, max_children_, max_sibling_) ==
    LET own == {tree[candidate_node].attrib["backend_node_id"]}
        above == {IdOf(tree, x) : x \in Ancestors(tree, candidate_node)}
        below == IdsOfSeq(tree, Take(get_descendants(tree, candidate_node, max_depth_, 0),
                                     max_children_))
        siblings == ElementSiblings(tree, candidate_node)
    IN  IF tree[candidate_node].parent = 0 THEN Ok(own \cup above \cup below)
        ELSE IF \A k \in 1..Len(siblings) : siblings[k] # candidate_node
        THEN Raise("ValueError")
        ELSE Ok(own \cup above \cup below
                \cup IdsOfSeq(tree, SiblingWindow(siblings,
                                                  IndexIn(siblings, candidate_node),
                                                  max_sibling_)))

\* The first loop of prune_tree from candidate k on: nodes_to_keep, or the
\* error that ended the loop (IndexError for a candidate no node carries).
RECURSIVE KeepLoop(_, _, _, _, _, _, _)
KeepLoop(tree, candidates, k, max_depth_, max_children_, max_sibling_, nodes_to_keep) ==
    IF k > Len(candidates) THEN Ok(nodes_to_keep)
    ELSE LET found == NodesWithId(tree, candidates[k])
             candidate_node == CHOOSE i \in found : \A j \in found : i <= j
             more == KeepOfCandidate(tree, candidate_node, max_depth_, max_children_,
                                     max_sibling_)
         IN  IF found = {} THEN Raise("IndexError")
             ELSE IF ~more.ok THEN more
             ELSE KeepLoop(tree, candidates, k + 1, max_depth_, max_children_,
                           max_sibling_, nodes_to_keep \cup more.val)

\* A mutant: a candidate no node carries is skipped.
NodesToKeepSkipping(tree, candidates, max_depth_, max_children_, max_sibling_) ==
    KeepLoop(tree, SelectSeq(candidates, LAMBDA c : NodesWithId(tree, c) # {}), 1,
             max_depth_, max_children_, max_sibling_, {})

\* A mutant: the ancestors of the candidates are not added.
NodesToKeepNoAncestors(tree, candidates, max_depth_, max_children_, max_sibling_) ==
    LET all == KeepLoop(tree, candidates, 1, max_depth_, max_children_, max_sibling_, {})
        above == UNION {{IdOf(tree, x) : x \in UNION {Ancestors(tree, i) :
                                                        i \in NodesWithId(tree, candidates[k])}} :
                           k \in 1..Len(candidates)}
    IN  IF all.ok THEN Ok(all.val \ above) ELSE all

\* A mutant: the descendants are not cut to max_children.
NodesToKeepUncut(tree, candidates, max_depth_, max_children_, max_sibling_) ==
    KeepLoop(tree, candidates, 1, max_depth_, Len(tree), max_sibling_, {})

\* A mutant: the key of the elements without identifier is always kept.
NodesToKeepIdless(tree, candidates, max_depth_, max_children_, max_sibling_) ==
    LET all == KeepLoop(tree, candidates, 1, max_depth_, max_children_, max_sibling_, {})
    IN  IF all.ok THEN Ok(all.val \cup {""}) ELSE all

\* Lines 122-154: nodes_to_keep for the candidates taken in the given order.
NodesToKeep(tree, candidates, max_depth_, max_children_, max_sibling_) ==
    KeepLoop(tree, candidates, 1, max_depth_, max_children_, max_sibling_, {})

Range(seq) == {seq[k] : k \in 1..Len(seq)}

\* A mutant: the identifier is removed from non-candidates, text or not, and
\* left on the text children of a candidate.
PruneNodeKeepingTextId(tree, i, nodes_to_keep, candidates) ==
    LET judged == IF tree[i].tag # "text" THEN i ELSE tree[i].parent
        is_keep == Get(tree[judged].attrib, "backend_node_id", "") \in nodes_to_keep
        is_candidate == Get(tree[judged].attrib, "backend_node_id", "") \in candidates
        t1 == IF ~is_candidate
              THEN [tree EXCEPT ![i].attrib = Pop(tree[i].attrib, "backend_node_id")]
              ELSE tree
    IN  IF ~is_keep /\ tree[i].parent # 0 THEN Remove(tree, i)
        ELSE IF /\ Cardinality(DOMAIN t1[i].attrib) = 0
                /\ ~HasTextChild(t1, i)
                /\ t1[i].parent # 0
                /\ t1[i].tag # "text"
                /\ Cardinality(Children(t1, i)) <= 1
             THEN Splice(t1, i)
             ELSE t1

\* One iteration of the second loop of prune_tree, on node i.
PruneNode(tree, i, nodes_to_keep, candidates) ==
    LET judged == IF tree[i].tag # "text" THEN i ELSE tree[i].parent
        is_keep == IdOf(tree, judged) \in nodes_to_keep
        is_candidate == IdOf(tree, judged) \in candidates
        t1 == IF ~is_candidate \/ tree[i].tag = "text"
              THEN [tree EXCEPT ![i].attrib = Pop(tree[i].attrib, "backend_node_id")]
              ELSE tree
    IN  IF ~is_keep /\ tree[i].parent # 0 THEN Remove(tree, i)
        ELSE IF /\ Cardinality(DOMAIN t1[i].attrib) = 0
                /\ ~HasTextChild(t1, i)
                /\ t1[i].parent # 0
                /\ t1[i].tag # "text"
                /\ Cardinality(Children(t1, i)) <= 1
             THEN Splice(t1, i)
             ELSE t1

\* for node in new_tree.xpath("//*")[::-1]: a node is reached before its
\* ancestors, so every node of the list is attached when it is reached.
RECURSIVE PruneLoop(_, _, _, _)
PruneLoop(tree, i, nodes_to_keep, candidates) ==
    IF i = 0 THEN tree
    ELSE PruneLoop(IF tree[i].alive THEN PruneNode(tree, i, nodes_to_keep, candidates)
                   ELSE tree,
                   i - 1, nodes_to_keep, candidates)

\* A mutant: data_prune_tree leaves the identifier on every node it keeps.
DataPruneTreeKeepingIds(tree, candidates, max_depth_, max_children_, max_sibling_) ==
    LET nodes_to_keep == NodesToKeep(tree, candidates, max_depth_, max_children_,
                                     max_sibling_)
    IN  IF ~nodes_to_keep.ok THEN nodes_to_keep
        ELSE Ok([new_tree |-> PruneLoop(deepcopy(tree).tree, Len(tree), nodes_to_keep.val,
                                        nodes_to_keep.val),
                 nodes_to_keep |-> nodes_to_keep.val])

\* data_prune_tree: (new_tree, nodes_to_keep), or the error of the first loop.
data_prune_tree(tree, candidates, max_depth_, max_children_, max_sibling_) ==
    LET nodes_to_keep == NodesToKeep(tree, candidates, max_depth_, max_children_,
                                     max_sibling_)
    IN  IF ~nodes_to_keep.ok THEN nodes_to_keep
        ELSE Ok([new_tree |-> PruneLoop(deepcopy(tree).tree, Len(tree), nodes_to_keep.val,
                                        Range(candidates)),
                 nodes_to_keep |-> nodes_to_keep.val])

\* prune_tree: new_tree, or the error of the first loop.
prune_tree(tree, candidates, max_depth_, max_children_, max_sibling_) ==
    LET nodes_to_keep == NodesToKeep(tree, candidates, max_depth_, max_children_,
                                     max_sibling_)
    IN  IF ~nodes_to_keep.ok THEN nodes_to_keep
        ELSE Ok([new_tree |-> PruneLoop(deepcopy(tree).tree, Len(tree), nodes_to_keep.val,
                                        Range(candidates))])

\* Largest number of nodes of a tree handed to prune_tree.
MaxPruneNodes == 5

\* Largest number of candidate identifiers of one call.
MaxCandidates == 2

\* Nodes of a sanitized snapshot: an element with only its identifier, an
\* element without identifier and with salient attributes, and text.
PrunePayloads ==
    { Payload("div", EmptyAttrib, "", TRUE),
      Payload("img", ("alt" :> "logo") @@ ("title" :> "t"), "", FALSE),
      Payload("text", EmptyAttrib, "Hi", TRUE) }

\* An identifier no node of a snapshot carries.
AbsentId == "99"

\* The candidate sets of at most MaxCandidates identifiers.
CandidateSets(ids) == {c \in SUBSET ids : Cardinality(c) <= MaxCandidates}

\* The orders in which "for candidate_id in candidate_set" can take a set.
Orders(set) ==
    {c \in [1..Cardinality(set) -> set] : \A a, b \in DOMAIN c : a # b => c[a] # c[b]}

\* (max_depth, max_children, max_sibling): the defaults, and bounds that cut.
PruneBounds ==
    { <<5, 50, 3>>, <<1, 1, 1>>, <<0, 2, 0>> }

InitPrune ==
    /\ pc = "start"
    /\ dom_tree \in TreesOver(PrunePayloads, MaxPruneNodes)
    /\ candidate_set \in CandidateSets(IdsOf(dom_tree) \cup {AbsentId})
    /\ \E b \in PruneBounds :
          /\ max_depth = b[1]
          /\ max_children = b[2]
          /\ max_sibling = b[3]
    /\ pruned = None
    /\ CleanIdle /\ ReprIdle /\ LetterIdle /\ FormatIdle

\* pruned = prune_tree(dom_tree, candidate_set, max_depth, max_children, max_sibling)
PruneTree ==
    /\ pc = "start"
    /\ \E order \in Orders(candidate_set) :
          pruned' = prune_tree(dom_tree, order, max_depth, max_children, max_sibling)
    /\ dom_tree' = IF pruned'.ok THEN ArgumentAfter(dom_tree, pruned'.val.new_tree)
                   ELSE dom_tree
    /\ pc' = "prune_tree"
    /\ UNCHANGED <<all_candidate_ids, new_tree, prev_tree, candidate_set, max_depth,
                   max_children, max_sibling, reprVars, letterVars, formatVars>>

\* pruned = data_prune_tree(dom_tree, candidate_set, max_depth, max_children, max_sibling)
DataPruneTree ==
    /\ pc = "start"
    /\ \E order \in Orders(candidate_set) :
          pruned' = data_prune_tree(dom_tree, order, max_depth, max_children, max_sibling)
    /\ dom_tree' = IF pruned'.ok THEN ArgumentAfter(dom_tree, pruned'.val.new_tree)
                   ELSE dom_tree
    /\ pc' = "data_prune_tree"
    /\ UNCHANGED <<all_candidate_ids, new_tree, prev_tree, candidate_set, max_depth,
                   max_children, max_sibling, reprVars, letterVars, formatVars>>

NextPrune == PruneTree \/ DataPruneTree

SpecPrune == InitPrune /\ [][NextPrune]_vars

\* A call of prune_tree or data_prune_tree has returned a tree.
Pruned == pc \in {"prune_tree", "data_prune_tree"} /\ pruned.ok

\* The node of the input tree a candidate identifier names.
CandidateNode(c) ==
    CHOOSE i \in NodesWithId(dom_tree, c) : \A j \in NodesWithId(dom_tree, c) : i <= j

\* The only candidate, when there is exactly one.
TheCandidate == CandidateNode(CHOOSE c \in candidate_set : TRUE)

\* Node a is in the pruned tree, above node c, and carries a backend
\* identifier only if it is a candidate.
StillAncestor(a, c) ==
    /\ pruned.val.new_tree[a].alive
    /\ a \in Ancestors(pruned.val.new_tree, c)
    /\ IdOf(dom_tree, a) \notin candidate_set
       => "backend_node_id" \notin DOMAIN pruned.val.new_tree[a].attrib

\* C4 as stated: every ancestor of every candidate in the input tree is still
\* an ancestor of it in the pruned tree, its identifier removed when it is not
\* a candidate.
C4_AncestorsPresent ==
    Pruned =>
        \A c \in candidate_set :
            \A a \in Ancestors(dom_tree, CandidateNode(c)) :
                StillAncestor(a, CandidateNode(c))

\* C4 amended: every candidate stays in the pruned tree, and no ancestor of a
\* candidate is deleted by the keep-set test.  An ancestor that is the root, is
\* a candidate, has an attribute besides its identifier or has a text child
\* is still an ancestor of the candidate, its identifier removed when it is
\* not a candidate.  Any other ancestor is either still such an ancestor or was
\* elided by the wrapper collapse, the candidate staying below the ancestors
\* that remain.
C4_AncestorsPresentUnlessCollapsed ==
    Pruned =>
        \A c \in candidate_set :
            LET cn == CandidateNode(c)
            IN  /\ pruned.val.new_tree[cn].alive
                /\ IdOf(pruned.val.new_tree, cn) = c
                /\ Ancestors(pruned.val.new_tree, cn) \subseteq Ancestors(dom_tree, cn)
                /\ \A a \in Ancestors(dom_tree, cn) :
                      IF \/ a = 1
                         \/ IdOf(dom_tree, a) \in candidate_set
                         \/ (DOMAIN dom_tree[a].attrib) \ {"backend_node_id"} # {}
                         \/ HasTextChild(dom_tree, a)
                      THEN StillAncestor(a, cn)
                      ELSE pruned.val.new_tree[a].alive => StillAncestor(a, cn)

\* A candidate two levels down whose parent lost its identifier and stayed,
\* and another call in which the parent was elided.
C4_Witness ==
    /\ Pruned
    /\ \E c \in candidate_set :
          \E a \in Ancestors(dom_tree, CandidateNode(c)) :
              /\ a # 1
              /\ "backend_node_id" \in DOMAIN dom_tree[a].attrib
              /\ IdOf(dom_tree, a) \notin candidate_set
              /\ ~HasTextChild(dom_tree, a)
              /\ pruned.val.new_tree[a].alive
              /\ "backend_node_id" \notin DOMAIN pruned.val.new_tree[a].attrib

\* The descendants of the single candidate that are left in the pruned tree.
KeptDescendants ==
    {d \in Descendants(dom_tree, TheCandidate) : pruned.val.new_tree[d].alive}

\* C5 as stated: after pruning with a single candidate c, at most max_children
\* descendants of c remain, text pseudo-nodes included.
C5_BoundedDescendants ==
    Pruned /\ Cardinality(candidate_set) = 1 =>
        Cardinality(KeptDescendants) <= max_children

\* C5 amended: after pruning with a single candidate c, at most max_children
\* of the non-text descendants of c that carry a backend identifier remain;
\* text pseudo-nodes stay whenever their parent stays, and elements without
\* identifier stay together, beyond that number.
C5_BoundedIdentifiedDescendants ==
    Pruned /\ Cardinality(candidate_set) = 1 =>
        Cardinality({d \in KeptDescendants :
                        /\ dom_tree[d].tag # "text"
                        /\ "backend_node_id" \in DOMAIN dom_tree[d].attrib}) <= max_children

\* The cut bites: an identified element below the candidate is gone, another
\* one stays, and more descendants than max_children are left.
C5_Witness ==
    /\ Pruned
    /\ Cardinality(candidate_set) = 1
    /\ max_children = 1
    /\ Cardinality(KeptDescendants) > 1
    /\ \E d \in KeptDescendants :
          dom_tree[d].tag # "text" /\ "backend_node_id" \in DOMAIN dom_tree[d].attrib
    /\ \E d \in Descendants(dom_tree, TheCandidate) \ KeptDescendants :
          dom_tree[d].tag # "text" /\ "backend_node_id" \in DOMAIN dom_tree[d].attrib

\* C6: a candidate identifier that no node carries makes prune_tree and
\* data_prune_tree raise an error, whatever the other candidates are and
\* whichever candidate the loop takes first: nothing is returned, and the
\* tree handed in is as it was.
C6_AbsentCandidateFails ==
    [][(/\ pc' \in {"prune_tree", "data_prune_tree"}
        /\ \E c \in candidate_set : NodesWithId(dom_tree, c) = {})
       => /\ pruned' \in {Raise("IndexError"), Raise("ValueError")}
          /\ (\A c \in candidate_set :
                 \A i \in NodesWithId(dom_tree, c) : dom_tree[i].tag # "text")
             => pruned' = Raise("IndexError")
          /\ dom_tree' = dom_tree]_vars

C6_Witness ==
    /\ pc = "data_prune_tree"
    /\ Cardinality(candidate_set) = 2
    /\ AbsentId \in candidate_set
    /\ \E c \in candidate_set : NodesWithId(dom_tree, c) # {}
    /\ pruned = Raise("IndexError")

\* The position of an element among the element children of its parent.
SiblingIndex(i) == IndexIn(ElementSiblings(dom_tree, i), i)

\* C10 as stated: with a single candidate c that has a parent, the sibling
\* step adds to the keep-set the identifiers of the element siblings at most
\* max_sibling positions from c and of no other sibling, so the element
\* siblings of c the pruned tree keeps lie within max_sibling positions of c
\* (with max_sibling = 1: at most 2 of them).
C10_SiblingWindow ==
    (/\ Pruned
     /\ Cardinality(candidate_set) = 1
     /\ dom_tree[TheCandidate].parent # 0)
    => LET c == TheCandidate
           siblings == Range(ElementSiblings(dom_tree, c))
           inside == {s \in siblings :
                         /\ SiblingIndex(s) >= Max(0, SiblingIndex(c) - max_sibling)
                         /\ SiblingIndex(s) <= SiblingIndex(c) + max_sibling}
       IN  /\ pruned.val.new_tree[c].alive
           /\ pc = "data_prune_tree" =>
                 /\ \A s \in inside : IdOf(dom_tree, s) \in pruned.val.nodes_to_keep
                 /\ \A s \in siblings \ inside :
                       "backend_node_id" \in DOMAIN dom_tree[s].attrib
                       => IdOf(dom_tree, s) \notin pruned.val.nodes_to_keep
           /\ \A s \in siblings \ inside : ~pruned.val.new_tree[s].alive
           /\ max_sibling = 1 =>
                 Cardinality({s \in siblings \ {c} : pruned.val.new_tree[s].alive}) <= 2

\* ------------------------------------------- the tree handed to a call

\* A snapshot is sanitized or pruned: either call, on a raw or a sanitized
\* tree.
InitFrame == InitClean \/ InitPrune

NextFrame == NextClean \/ NextPrune

SpecFrame == InitFrame /\ [][NextFrame]_vars

GetTreeReprDefault ==
    /\ \E t \in TreesOver(ReprPayloads, MaxReprNodes) :
          LET r == get_tree_repr(t, DefaultMaxValueLength, DefaultMaxLength,
                                 id_mapping_default)
          IN  /\ dom_tree' = t
              /\ tree_repr' = Ok(r.tree)
              /\ repr_text' = TreeReprText(r.tree, FALSE)
              /\ id_mapping_default' = r.id_mapping
    /\ pc' = "get_tree_repr_default"
    /\ UNCHANGED <<id_mapping, max_value_length, max_length,
                   seen_ids, all_candidate_ids, new_tree, prev_tree, pruneVars,
                   letterVars, formatVars>>

NextDefault == GetTreeReprDefault

SpecDefault == InitRepr /\ [][NextDefault]_vars

\* C12: get_tree_repr keeps no state between calls other than the map the
\* caller passes: a call made without an identifier map starts from an empty
\* map, so the text and the map it returns are those of a call with a fresh
\* empty map, whatever calls were made before it.
C12_NoStateBetweenCalls ==
    [][pc' = "get_tree_repr_default" =>
          LET r == get_tree_repr(dom_tree', DefaultMaxValueLength, DefaultMaxLength,
                                 EmptyMap)
          IN  /\ repr_text' = TreeReprText(r.tree, FALSE)
              /\ id_mapping_default' = r.id_mapping]_vars

\* ------------------------------------------- sanitize, then serialize

\* Largest number of nodes of a snapshot that is sanitized and serialized.
MaxSerializeNodes == 3

\* Elements that hold their text themselves or in a text pseudo-node, with
\* identifiers that do not follow from their position.
SerializePayloads ==
    { Payload("div", EmptyAttrib, "", FALSE),
      Payload("span", ("backend_node_id" :> "1"), "Hi", FALSE),
      Payload("span", ("backend_node_id" :> "3") @@ ("title" :> " Go  on "), "", FALSE),
      Payload("text", ("backend_node_id" :> "2"), "Hi", FALSE) }

\* <div><span backend_node_id="1">Hi</span></div>
ScenarioA ==
    << Node("div", EmptyAttrib, "", 0),
       Node("span", ("backend_node_id" :> "1"), "Hi", 1) >>

InitSerialize ==
    /\ pc = "start"
    /\ dom_tree \in TreesOver(SerializePayloads, MaxSerializeNodes)
    /\ all_candidate_ids \in {ids \in SUBSET IdsOf(dom_tree) : Cardinality(ids) <= 1}
    /\ new_tree = <<>>
    /\ prev_tree = <<>>
    /\ PruneIdle /\ ReprIdle /\ LetterIdle /\ FormatIdle

\* tree_repr, id_mapping = get_tree_repr(new_tree, id_mapping={}): the
\* sanitized tree is serialized with the default limits and a fresh map.
SerializeClean ==
    /\ pc = "cleaned"
    /\ LET r == get_tree_repr(new_tree, DefaultMaxValueLength, DefaultMaxLength, EmptyMap)
       IN  /\ tree_repr' = Ok(r.tree)
           /\ repr_text' = TreeReprText(r.tree, FALSE)
           /\ id_mapping' = r.id_mapping
           /\ seen_ids' = ElementIdsOf(new_tree)
    /\ pc' = "serialized"
    /\ UNCHANGED <<dom_tree, id_mapping_default, max_value_length, max_length,
                   all_candidate_ids, new_tree, prev_tree,
                   pruneVars, letterVars, formatVars>>

NextSerialize == CleanTree \/ SerializeClean

SpecSerialize == InitSerialize /\ [][NextSerialize]_vars

\* C13 as stated: <div><span backend_node_id="1">Hi</span></div>, sanitized
\* with no must-keep identifiers and serialized with the default limits and a
\* fresh map, yields a text that contains (span id=0>Hi) and the map {"1": 0}.
C13_ScenarioA ==
    (pc = "serialized" /\ dom_tree = ScenarioA /\ all_candidate_ids = {})
    => /\ Contains(repr_text, "(span id=0>Hi)")
       /\ id_mapping = ("1" :> 0)

\* C13 amended: sanitized with no must-keep identifiers, the span is elided
\* by the wrapper collapse and its text goes with it: the text printed is
\* (div) and the map is empty.  With "1" in the must-keep set the span stays,
\* the text printed is (div(span id=0Hi)) and the map is {"1": 0}.  The
\* closing angle bracket of a tag is never printed.
C13_ScenarioACollapsed ==
    pc = "serialized" =>
        /\ ~Contains(repr_text, ">")
        /\ dom_tree = ScenarioA =>
              IF all_candidate_ids = {}
              THEN repr_text = "(div)" /\ id_mapping = EmptyMap
              ELSE repr_text = "(div(span id=0Hi))" /\ id_mapping = ("1" :> 0)

C13_Witness ==
    /\ pc = "serialized"
    /\ dom_tree = ScenarioA
    /\ all_candidate_ids = {}
    /\ repr_text = "(div)"

\* --------------------------------------------- sanitizing: what is kept

\* C14: sanitizing a node that has role="presentation" and alt="  logo  "
\* leaves that node in the output tree with alt="logo" as its only surviving
\* salient attribute: the role is dropped, the alt value is normalized, and the
\* node itself is not removed.
C14_ScenarioB ==
    pc = "cleaned" =>
        \A i \in 1..Len(dom_tree) :
            (/\ Get(dom_tree[i].attrib, "role", "") = "presentation"
             /\ Get(dom_tree[i].attrib, "alt", "") = "  logo  ")
            => /\ new_tree[i].alive
               /\ (DOMAIN new_tree[i].attrib) \cap salient_attributes = {"alt"}
               /\ new_tree[i].attrib["alt"] = "logo"

\* -------------------------------------------------- the letter enumeration

\* Largest number of choices handed to a formatter.
MaxChoices == 705

\* Largest number of choices whose letters chr() takes from the ASCII table.
MaxAsciiChoices == 30

\* The ASCII characters of the codes 32 to 95.
Ascii ==
    " !\"#$%&'()*+,-./0123456789:;<=>?@ABCDEFGHIJKLMNOPQRSTUVWXYZ[\\]^_"

\* chr(n), for the codes 32 to 95.
chr(n) == CharAt(Ascii, n - 31)

\* format_options, lines 275-289: the lines of multi_choice as (letter, text)
\* pairs, or the error raised.  Every iteration names the choice and the four
\* entries that would follow it; the values of the last iteration are printed.
\* Without an iteration scroll is not bound when line 286 reads it.
format_options(choices_) ==
    LET n == Len(choices_)
        non_abcd == generate_option_name(n)
        scroll == generate_option_name(n + 1)
        previous_page == generate_option_name(n + 1)
        back_home == generate_option_name(n + 2)
        search == generate_option_name(n + 3)
    IN  IF n = 0 THEN Raise("UnboundLocalError")
        ELSE IF \E multichoice_idx \in 0..(n - 1) :
                   \E d \in 0..4 : ~generate_option_name(multichoice_idx + d).ok
        THEN Raise("IndexError")
        ELSE Ok([k \in 1..n |-> <<generate_option_name(k - 1).val, choices_[k][2]>>]
                \o << <<non_abcd.val, "None of the other options match the correct element">>,
                      <<scroll.val, "Scroll (up or down)">>,
                      <<previous_page.val, "Go back to the previous page">>,
                      <<back_home.val, "Go to a specific URL">>,
                      <<search.val, "Execute a query in a search engine">> >>)

\* A mutant: the choices are lettered from A on.
MultichoiceLinesFromA(choices_) ==
    << <<"A", "None of the above">> >>
    \o [k \in 1..Len(choices_) |-> <<chr(65 + (k - 1)), choices_[k][2]>>]

\* data_format_input_multichoice, lines 61-68: the lines of the enumeration
\* in seq_input as (letter, text) pairs.
MultichoiceLines(choices_) ==
    << <<"A", "None of the above">> >>
    \o [k \in 1..Len(choices_) |-> <<chr(66 + (k - 1)), choices_[k][2]>>]

\* n choices: the identifiers and texts do not matter to the letters.
ChoicesOf(n) == [k \in 1..n |-> <<ToString(k), "choice">>]

InitOptions ==
    /\ pc = "start"
    /\ choices \in {ChoicesOf(n) : n \in 0..MaxChoices}
    /\ gt = NoGt
    /\ options = None
    /\ seq_target = ""
    /\ dom_tree = <<>>
    /\ CleanIdle /\ PruneIdle /\ ReprIdle /\ LetterIdle

\* option_text = format_options(choices)
FormatOptions ==
    /\ pc = "start"
    /\ options' = format_options(choices)
    /\ pc' = "format_options"
    /\ UNCHANGED <<choices, gt, seq_target, cleanVars, pruneVars, reprVars, letterVars>>

\* The enumeration data_format_input_multichoice prints for its choices.
FormatMultichoice ==
    /\ pc = "start"
    /\ Len(choices) <= MaxAsciiChoices
    /\ options' = Ok(MultichoiceLines(choices))
    /\ pc' = "data_format_input_multichoice"
    /\ UNCHANGED <<choices, gt, seq_target, cleanVars, pruneVars, reprVars, letterVars>>

NextOptions == FormatOptions \/ FormatMultichoice

SpecOptions == InitOptions /\ [][NextOptions]_vars

\* C15: the letter enumeration of the choice formatter labels its entries A..Z
\* and then AA, AB, ...: for any number of choices up to 702 the enumeration
\* is printed, every label consists of uppercase letters only, and a
\* two-letter label appears only after all 26 one-letter labels are used.
C15_LetterEnumeration ==
    (pc \in {"format_options", "data_format_input_multichoice"}
     /\ Len(choices) <= TwoLetterCodes)
    => /\ options.ok
       /\ \A k \in 1..Len(options.val) :
             /\ Len(options.val[k][1]) \in {1, 2}
             /\ IsUpperCode(options.val[k][1])
             /\ Len(options.val[k][1]) = 2 => k > Letters

\* ------------------------------------------ data_format_input_multichoice

\* Largest number of nodes of a sanitized snapshot handed to
\* data_format_input_multichoice.
MaxFormatNodes == 3

\* copy.deepcopy(node): the subtree of node i as a tree of its own.
Subtree(tree, i) ==
    [j \in 1..Len(tree) |->
        IF j = i THEN [tree[j] EXCEPT !.parent = 0]
        ELSE IF tree[j].alive /\ i \in Ancestors(tree, j) THEN tree[j]
        ELSE [tree[j] EXCEPT !.alive = FALSE]]

\* dom_tree.xpath("//*[@backend_node_id]"), in document order
NodesWithBackendId(tree) ==
    InOrder({i \in Alive(tree) : "backend_node_id" \in DOMAIN tree[i].attrib})

\* The loop of lines 32-49 from candidate node k on: every iteration calls
\* get_tree_repr on the node twice with the map of the calls before, and
\* appends the node's identifier and the first 10 tokens of its text.
\* Lines 44-49: the choice of a candidate node, from its identifier and the
\* markup get_tree_repr made of it: the first 10 tokens of its text.
Choice(backend_node_id, r) ==
    <<backend_node_id, Join(Take(Split(TreeReprText(r.tree, FALSE)), 10))>>

\* Lines 33-43: the two calls of get_tree_repr on a candidate node, the second
\* with the map the first one returns.
ReprTwice(node, mapping) ==
    get_tree_repr(node, DefaultMaxValueLength, DefaultMaxLength,
                  get_tree_repr(node, DefaultMaxValueLength, DefaultMaxLength,
                                mapping).id_mapping)

\* One iteration of the loop of lines 32-49, given the result r of its
\* second get_tree_repr call.
ChoicesStep(st, backend_node_id, r) ==
    [choices |-> Append(st.choices, Choice(backend_node_id, r)),
     id_mapping |-> r.id_mapping]

\* The loop of lines 32-49 from candidate node k on: every iteration calls
\* get_tree_repr on the node twice with the map of the calls before, and
\* appends the node's identifier and the first 10 tokens of its text.
RECURSIVE ChoicesLoop(_, _, _, _)
ChoicesLoop(tree, candidate_nodes, k, st) ==
    IF k > Len(candidate_nodes) THEN st
    ELSE ChoicesLoop(tree, candidate_nodes, k + 1,
                     ChoicesStep(st, tree[candidate_nodes[k]].attrib["backend_node_id"],
                                 ReprTwice(Subtree(tree, candidate_nodes[k]),
                                           st.id_mapping)))

\* Lines 50-77: what the function returns, from the pruned tree, its markup r
\* and the choices and identifier map the loop ends with.
FormatReturn(pruned_, r, done, gt_) ==
    Ok([pruned |-> pruned_,
        markup |-> r.tree,
        tree_repr |-> TreeReprText(r.tree, FALSE),
        id_mapping |-> done.id_mapping,
        choices |-> done.choices,
        seq_input |-> MultichoiceLines(done.choices),
        seq_target |-> IF Get(done.id_mapping, gt_, -1) = -1 THEN "A"
                       ELSE chr(65 + (Get(done.id_mapping, gt_, -1) + 1))])

\* Lines 30-49: the choices loop over the candidate nodes of the pruned tree,
\* started with the map of the tree's own get_tree_repr call.
FormatChoices(pruned_, r, gt_) ==
    FormatReturn(pruned_, r,
                 ChoicesLoop(pruned_.new_tree, NodesWithBackendId(pruned_.new_tree), 1,
                             [choices |-> <<>>, id_mapping |-> r.id_mapping]),
                 gt_)

\* Lines 26-29: the function after data_prune_tree returned p or raised.
FormatPruned(p, gt_) ==
    IF ~p.ok THEN p
    ELSE FormatChoices(p.val,
                       get_tree_repr(p.val.new_tree, DefaultMaxValueLength,
                                     DefaultMaxLength, EmptyMap),
                       gt_)

\* data_format_input_multichoice(sample, candidate_ids, gt) on the tree of
\* sample["cleaned_html"]: what it returns, or the error of data_prune_tree.
\* seq_target is given by its letter.
data_format_input_multichoice(tree, candidate_ids, gt_) ==
    FormatPruned(data_prune_tree(tree, candidate_ids, 5, 50, 3), gt_)

InitMultichoice ==
    /\ pc = "start"
    /\ dom_tree \in TreesOver(PrunePayloads, MaxFormatNodes)
    /\ candidate_set \in CandidateSets(IdsOf(dom_tree) \cup {AbsentId})
    /\ gt \in IdsOf(dom_tree) \cup {NoGt}
    /\ max_depth = 5
    /\ max_children = 50
    /\ max_sibling = 3
    /\ pruned = None
    /\ choices = <<>>
    /\ options = None
    /\ seq_target = ""
    /\ CleanIdle /\ ReprIdle /\ LetterIdle

\* tree_repr, seq_input, seq_target, choices, node_to_keep =
\*     data_format_input_multichoice(sample, candidate_set, gt)
DataFormatInputMultichoice ==
    /\ pc = "start"
    /\ \E order \in Orders(candidate_set) :
          LET out == data_format_input_multichoice(dom_tree, order, gt)
          IN  IF out.ok
              THEN /\ pruned' = Ok(out.val.pruned)
                   /\ tree_repr' = Ok(out.val.markup)
                   /\ repr_text' = out.val.tree_repr
                   /\ id_mapping' = out.val.id_mapping
                   /\ choices' = out.val.choices
                   /\ options' = Ok(out.val.seq_input)
                   /\ seq_target' = out.val.seq_target
              ELSE /\ pruned' = out
                   /\ options' = out
                   /\ UNCHANGED <<tree_repr, repr_text, id_mapping, choices, seq_target>>
    /\ pc' = "data_format_input_multichoice"
    /\ UNCHANGED <<dom_tree, candidate_set, max_depth, max_children, max_sibling, gt,
                   id_mapping_default, max_value_length, max_length, seen_ids, all_candidate_ids, new_tree, prev_tree,
                   letterVars>>

NextMultichoice == DataFormatInputMultichoice

SpecMultichoice == InitMultichoice /\ [][NextMultichoice]_vars

\* C16: the choices of data_format_input_multichoice are the candidate nodes
\* of the pruned tree in document order, and the target letter for a
\* ground-truth identifier g is the letter that labels the choice whose
\* identifier is g; when g is the identifier of no node that still carries an
\* identifier in the pruned tree, or is the sentinel -1, the target is the
\* letter A of the entry "None of the above".
C16_ChoicesAndTarget ==
    (pc = "data_format_input_multichoice" /\ options.ok) =>
        LET kept == pruned.val.new_tree
            candidate_nodes == NodesWithBackendId(kept)
        IN  /\ Len(choices) = Len(candidate_nodes)
            /\ \A k \in 1..Len(choices) :
                  /\ choices[k][1] = IdOf(kept, candidate_nodes[k])
                  /\ choices[k][1] = IdOf(dom_tree, candidate_nodes[k])
            /\ {choices[k][1] : k \in 1..Len(choices)} = candidate_set
            /\ Len(options.val) = Len(choices) + 1
            /\ options.val[1] = <<"A", "None of the above">>
            /\ \A k \in 1..Len(choices) :
                  choices[k][1] = gt => seq_target = options.val[k + 1][1]
            /\ (\A k \in 1..Len(choices) : choices[k][1] # gt) => seq_target = "A"

\* Two candidates, the ground truth being the second one in document order.
C16_Witness ==
    /\ pc = "data_format_input_multichoice"
    /\ options.ok
    /\ Len(choices) = 2
    /\ choices[2][1] = gt
    /\ seq_target = "C"
    /\ \E i \in Alive(pruned.val.new_tree) :
          /\ "backend_node_id" \in DOMAIN dom_tree[i].attrib
          /\ "backend_node_id" \notin DOMAIN pruned.val.new_tree[i].attrib

\* ------------------------------------------------ pruning: what is kept

\* The number of levels node d lies below node c (1 for a child of c).
Level(tree, c, d) == Cardinality(Ancestors(tree, d) \ Ancestors(tree, c))

\* C17: depth bound of the descendant expansion: get_descendants(c, max_depth)
\* returns, in depth-first pre-order, only nodes at most max_depth levels below
\* the candidate c, so no node at level max_depth + 1 or deeper is added to the
\* keep-set by the descendant step: with a single candidate, no identified
\* element that deep below it is kept.
C17_DepthBound ==
    (Pruned /\ Cardinality(candidate_set) = 1) =>
        LET c == TheCandidate
            found == get_descendants(dom_tree, c, max_depth, 0)
        IN  /\ \A k \in 1..Len(found) :
                  /\ c \in Ancestors(dom_tree, found[k])
                  /\ Level(dom_tree, c, found[k]) <= max_depth
            /\ \A k \in 1..(Len(found) - 1) : found[k] < found[k + 1]
            /\ \A d \in Descendants(dom_tree, c) :
                  (/\ Level(dom_tree, c, d) > max_depth
                   /\ dom_tree[d].tag # "text"
                   /\ "backend_node_id" \in DOMAIN dom_tree[d].attrib)
                  => ~pruned.val.new_tree[d].alive

\* The candidate nodes of the call.
CandidateNodes == {CandidateNode(c) : c \in candidate_set}

\* The nodes the first loop selects for candidate node c: c, its ancestors,
\* the first max_children of its depth-bounded descendants, and the element
\* siblings in its window.
SelectedFor(c) ==
    {c} \cup Ancestors(dom_tree, c)
        \cup Range(Take(get_descendants(dom_tree, c, max_depth, 0), max_children))
        \cup (IF dom_tree[c].parent = 0 THEN {}
              ELSE Range(SiblingWindow(ElementSiblings(dom_tree, c), SiblingIndex(c),
                                       max_sibling)))

\* C18: every non-text element that remains in the pruned tree is, in the
\* input tree, a candidate, an ancestor of a candidate, one of the descendants
\* selected for a candidate or an element sibling inside a candidate's window;
\* an element that is none of these is deleted, also when it carries no
\* backend identifier.
C18_OnlySelectedRemain ==
    (Pruned /\ candidate_set # {}) =>
        \A i \in Alive(pruned.val.new_tree) :
            dom_tree[i].tag # "text" => i \in UNION {SelectedFor(c) : c \in CandidateNodes}

\* C19: in the tree prune_tree returns (identifiers unique in the input, every
\* candidate present), the nodes that carry a backend identifier are exactly
\* the candidate nodes: every candidate survives with its identifier, neither
\* deleted nor collapsed, and every surviving non-candidate node and every
\* text pseudo-node has no backend identifier.
C19_OnlyCandidatesAddressable ==
    Pruned =>
        /\ \A c \in CandidateNodes :
              /\ pruned.val.new_tree[c].alive
              /\ IdOf(pruned.val.new_tree, c) = IdOf(dom_tree, c)
              /\ IdOf(dom_tree, c) \in candidate_set
        /\ {i \in Alive(pruned.val.new_tree) :
               "backend_node_id" \in DOMAIN pruned.val.new_tree[i].attrib} = CandidateNodes
        /\ \A i \in Alive(pruned.val.new_tree) :
              dom_tree[i].tag = "text" =>
                  "backend_node_id" \notin DOMAIN pruned.val.new_tree[i].attrib

\* Two candidates stay, and so do an element and a text pseudo-node that had
\* an identifier and lost it.
C19_Witness ==
    /\ Pruned
    /\ Cardinality(candidate_set) = 2
    /\ \E i, j \in Alive(pruned.val.new_tree) :
          /\ dom_tree[i].tag = "text"
          /\ "backend_node_id" \in DOMAIN dom_tree[i].attrib
          /\ dom_tree[j].tag # "text"
          /\ "backend_node_id" \in DOMAIN dom_tree[j].attrib
          /\ j \notin CandidateNodes
          /\ "backend_node_id" \notin DOMAIN pruned.val.new_tree[j].attrib

\* C20: sanitization removes a non-text node by wrapper collapse only when
\* (a)-(e) hold, in particular only when the single attribute it has left is
\* its backend identifier: a node whose one remaining attribute is a salient
\* attribute is never collapsed, and its attribute is never lost.
C20_CollapseOnlyIdentifierOnly ==
    pc = "cleaned" =>
        \A i \in 1..Len(dom_tree) :
            (dom_tree[i].tag # "text" /\ ~new_tree[i].alive)
            => /\ DOMAIN new_tree[i].attrib = {"backend_node_id"}
               /\ new_tree[i].attrib["backend_node_id"] \notin all_candidate_ids
               /\ ~HasTextChild(dom_tree, i) \/ \A j \in Children(dom_tree, i) :
                                                    dom_tree[j].tag = "text" => ~new_tree[j].alive
               /\ dom_tree[i].parent # 0

\* ------------------------------------------- sanitizing: the attributes

\* Largest number of nodes of a snapshot whose attributes are sanitized.
MaxAttribNodes == 3

\* Raw snapshot nodes for the attribute loop: icon graphics whose class has
\* icon tokens in several letter cases, none, or is empty; dropped values of
\* role and type with and without whitespace around them; values that are
\* whitespace only or hold a tab; attributes outside the allow-list.
AttribPayloads ==
    { Payload("svg", ("class" :> " big Icon-x  myICON ") @@ ("title" :> " t  t ")
                     @@ ("role" :> "img") @@ ("style" :> "x"), "", TRUE),
      Payload("svg", ("class" :> "big") @@ ("aria_label" :> "x") @@ ("type" :> "hidden"),
              "", FALSE),
      Payload("svg", ("class" :> "") @@ ("alt" :> "a\tb"), "", FALSE),
      Payload("a", ("role" :> " link") @@ ("href" :> "x") @@ ("type" :> "hidden "),
              "", TRUE),
      Payload("input", ("type" :> "hidden") @@ ("role" :> "none") @@ ("value" :> "  ")
                       @@ ("name" :> "q") @@ ("class" :> "icon"), "", TRUE),
      Payload("text", ("title" :> " x "), "Hi", TRUE) }

InitAttrib ==
    /\ pc = "start"
    /\ dom_tree \in TreesOver(AttribPayloads, MaxAttribNodes)
    /\ all_candidate_ids \in {ids \in SUBSET IdsOf(dom_tree) : Cardinality(ids) <= 1}
    /\ new_tree = <<>>
    /\ prev_tree = <<>>
    /\ PruneIdle /\ ReprIdle /\ LetterIdle /\ FormatIdle

NextAttrib == CleanTree

SpecAttrib == InitAttrib /\ [][NextAttrib]_vars

\* The whitespace-separated tokens of a class value that contain "icon" in
\* any letter case.
IconTokens(value) ==
    SelectSeq(Split(value),
              LAMBDA tok : \E k \in 1..Len(tok) :
                  Lower(SubSeq(tok, k, Min(Len(tok), k + 3))) = "icon")

\* What sanitization does to the class of icon-graphic node i: only the icon
\* tokens stay, joined by spaces, and the class is dropped when there is none.
IconClassKept(i) ==
    /\ "class" \in DOMAIN new_tree[i].attrib <=> IconTokens(dom_tree[i].attrib["class"]) # <<>>
    /\ "class" \in DOMAIN new_tree[i].attrib
       => new_tree[i].attrib["class"] = Join(IconTokens(dom_tree[i].attrib["class"]))

\* The icon-graphic nodes of the input that have a class attribute.
IconNodes ==
    {i \in 1..Len(dom_tree) : dom_tree[i].tag = "svg" /\ "class" \in DOMAIN dom_tree[i].attrib}

\* C21 as stated: on an icon-graphic node (tag svg) that has a class attribute,
\* sanitization keeps of the class only the tokens that contain "icon"
\* case-insensitively, dropping class when none match, and drops every other
\* attribute of that node, salient attributes included.
C21_IconOthersDropped ==
    pc = "cleaned" =>
        \A i \in IconNodes :
            /\ IconClassKept(i)
            /\ DOMAIN new_tree[i].attrib \subseteq {"class", "backend_node_id"}

\* C21 amended: on an icon-graphic node that has a class attribute,
\* sanitization keeps of the class only the tokens that contain "icon"
\* case-insensitively, dropping class when none match; every other attribute
\* of the node is treated as on any other node: the backend identifier stays,
\* a salient attribute stays unless its value is a dropped role or type value
\* or is empty after normalization, and every other attribute is dropped.
C21_IconOthersAsElsewhere ==
    pc = "cleaned" =>
        \A i \in IconNodes :
            /\ IconClassKept(i)
            /\ \A a \in (DOMAIN dom_tree[i].attrib) \ {"class"} :
                  a \in DOMAIN new_tree[i].attrib
                  <=> \/ a = "backend_node_id"
                      \/ /\ a \in salient_attributes
                         /\ Split(dom_tree[i].attrib[a]) # <<>>
                         /\ ~(a = "role" /\ dom_tree[i].attrib[a] \in {"presentation", "none", "link"})
                         /\ ~(a = "type" /\ dom_tree[i].attrib[a] = "hidden")

\* An icon graphic keeps two icon tokens of three class tokens and its title,
\* and another one loses a class without icon token.
C21_Witness ==
    /\ pc = "cleaned"
    /\ \E i, j \in IconNodes :
          /\ new_tree[i].alive
          /\ Get(new_tree[i].attrib, "class", "") = "Icon-x myICON"
          /\ "title" \in DOMAIN new_tree[i].attrib
          /\ "style" \notin DOMAIN new_tree[i].attrib
          /\ dom_tree[j].attrib["class"] = "big"
          /\ "class" \notin DOMAIN new_tree[j].attrib

\* A value is whitespace-normalized: not empty, no whitespace at either end,
\* no whitespace but single spaces.
Normalized(value) ==
    /\ value # ""
    /\ ~IsSpace(CharAt(value, 1))
    /\ ~IsSpace(CharAt(value, Len(value)))
    /\ \A k \in 1..Len(value) :
          IsSpace(CharAt(value, k))
          => CharAt(value, k) = " " /\ ~IsSpace(CharAt(value, k + 1))

\* C22: after clean_tree, every attribute of every node is one of the 15
\* salient attributes or backend_node_id, except that a node of tag svg may
\* also keep class; every surviving salient attribute value is non-empty and
\* whitespace-normalized.
C22_OnlySalientNormalized ==
    pc = "cleaned" =>
        /\ Cardinality(salient_attributes) = 15
        /\ \A i \in Alive(new_tree) :
              \A a \in DOMAIN new_tree[i].attrib :
                  /\ \/ a \in salient_attributes
                     \/ a = "backend_node_id"
                     \/ a = "class" /\ new_tree[i].tag = "svg"
                  /\ a \in salient_attributes => Normalized(new_tree[i].attrib[a])

\* A title with whitespace at both ends and a run inside, and an alt with a
\* tab, are kept normalized; an icon graphic keeps its class, and an input
\* loses its whitespace-only value and its class.
C22_Witness ==
    /\ pc = "cleaned"
    /\ \E i, j, k \in Alive(new_tree) :
          /\ dom_tree[i].attrib = ("class" :> " big Icon-x  myICON ") @@ ("title" :> " t  t ")
                                  @@ ("role" :> "img") @@ ("style" :> "x")
                                  @@ ("backend_node_id" :> ToString(i))
          /\ new_tree[i].attrib = ("class" :> "Icon-x myICON") @@ ("title" :> "t t")
                                  @@ ("role" :> "img") @@ ("backend_node_id" :> ToString(i))
          /\ dom_tree[j].attrib = ("class" :> "") @@ ("alt" :> "a\tb")
          /\ new_tree[j].attrib = ("alt" :> "a b")
          /\ dom_tree[k].tag = "input"
          /\ new_tree[k].attrib = ("name" :> "q") @@ ("backend_node_id" :> ToString(k))

\* C29: after clean_tree no node of the output tree has a role attribute whose
\* value is presentation, none or link, and no node has a type attribute whose
\* value is hidden, whatever whitespace surrounded those values in the input.
C29_NoDroppedRoleOrType ==
    pc = "cleaned" =>
        \A i \in Alive(new_tree) :
            /\ Get(new_tree[i].attrib, "role", "") \notin {"presentation", "none", "link"}
            /\ Get(new_tree[i].attrib, "type", "") # "hidden"

\* ---------------------------------------------------- get_attribute_repr

\* Largest number of attributes of a node handed to get_attribute_repr.
MaxMetaAttrs == 4

\* Attributes of a sanitized node: values in upper case, values that are
\* skipped, a token of 15 characters or more, two values that condense to the
\* same text, a value of many tokens, and the identifier as get_tree_repr
\* leaves it.
MetaPairs ==
    { <<"role", "Button">>, <<"type", "HIDDEN">>, <<"alt", "Logo big logo">>,
      <<"aria_label", "Logo  Big">>, <<"name", "averyveryverylongtoken x">>,
      <<"value", "Http://x">>, <<"class", "a b c d e f">>,
      <<"backend_node_id", "0">> }

\* The attribute dictionary that holds the given (attribute, value) pairs.
AttribOf(pairs) ==
    [a \in {p[1] : p \in pairs} |-> (CHOOSE p \in pairs : p[1] = a)[2]]

\* (max_value_length, max_length): the defaults, and limits that cut.
MetaLimits == {1, 2, 5} \X {1, 3, 20}

InitMeta ==
    /\ pc = "start"
    /\ \E pairs \in {ps \in SUBSET MetaPairs : Cardinality(ps) <= MaxMetaAttrs} :
          dom_tree = <<Node("div", AttribOf(pairs), "", 0)>>
    /\ \E l \in MetaLimits :
          /\ max_value_length = l[1]
          /\ max_length = l[2]
    /\ id_mapping = EmptyMap
    /\ id_mapping_default = EmptyMap
    /\ tree_repr = None
    /\ repr_text = ""
    /\ seen_ids = {}
    /\ CleanIdle /\ PruneIdle /\ LetterIdle /\ FormatIdle

\* get_attribute_repr(node, max_value_length, max_length)
GetAttributeRepr ==
    /\ pc = "start"
    /\ tree_repr' = Ok([dom_tree EXCEPT ![1].attrib =
                           get_attribute_repr(dom_tree[1].attrib, max_value_length,
                                              max_length)])
    /\ pc' = "get_attribute_repr"
    /\ UNCHANGED <<dom_tree, id_mapping, id_mapping_default, max_value_length, max_length,
                   repr_text, seen_ids, cleanVarsButTree, pruneVars, letterVars,
                   formatVars>>

NextMeta == GetAttributeRepr

SpecMeta == InitMeta /\ [][NextMeta]_vars

\* The condensed value of an attribute value: lower case, tokens of 15
\* characters or more dropped, the first max_value_length tokens.
Condensed(value) ==
    Take(SelectSeq(Split(Lower(value)), LAMBDA v : Len(v) < 15), max_value_length)

\* The condensed values of the node by position in the priority order, the
\* empty sequence for an attribute that is absent or whose value is skipped.
CondensedValues ==
    LET old == dom_tree[1].attrib
        one(k) == IF /\ AttrOrder[k] \in DOMAIN old
                     /\ Lower(old[AttrOrder[k]])
                            \notin {"hidden", "none", "presentation", "null", "undefined"}
                     /\ ~StartsWith(Lower(old[AttrOrder[k]]), "http")
                  THEN Condensed(old[AttrOrder[k]])
                  ELSE <<>>
    IN  <<one(1), one(2), one(3), one(4), one(5), one(6), one(7), one(8), one(9), one(10),
          one(11), one(12), one(13), one(14), one(15), one(16)>>

\* The tokens of the accepted values, in priority order from position k on,
\* a value that an accepted value before it equals left out.
RECURSIVE MetaTokens(_, _)
MetaTokens(values, k) ==
    IF k > Len(values) THEN <<>>
    ELSE (IF \E j \in 1..(k - 1) : values[j] = values[k] THEN <<>> ELSE values[k])
         \o MetaTokens(values, k + 1)

\* C25: after get_attribute_repr a non-text node has no attributes other than
\* id (present exactly when it had a backend identifier) and meta (present
\* exactly when at least one condensed value was accepted); meta holds at most
\* max_length tokens, each shorter than 15 characters, contributed in the
\* priority order role, aria_role, type, alt, ..., class, with at most
\* max_value_length tokens per attribute value and no condensed value twice.
C25_IdAndMetaOnly ==
    pc = "get_attribute_repr" =>
        LET old == dom_tree[1].attrib
            new == tree_repr.val[1].attrib
            values == CondensedValues
            tokens == Split(new["meta"])
        IN  /\ Len(AttrOrder) = 16
            /\ DOMAIN new \subseteq {"id", "meta"}
            /\ "id" \in DOMAIN new <=> "backend_node_id" \in DOMAIN old
            /\ "id" \in DOMAIN new => new["id"] = old["backend_node_id"]
            /\ "meta" \in DOMAIN new <=> \E k \in 1..Len(values) : values[k] # <<>>
            /\ "meta" \in DOMAIN new =>
                  /\ Len(tokens) <= max_length
                  /\ \A k \in 1..Len(tokens) : Len(tokens[k]) < 15
                  /\ \A k \in 1..Len(values) : Len(values[k]) <= max_value_length
                  /\ tokens = Take(MetaTokens(values, 1), max_length)
                  /\ new["meta"] = Join(tokens)

\* Two tokens per value and three in all: the role, the alt text cut to two
\* tokens, the label with the same condensed value dropped, the class cut off.
C25_Witness ==
    /\ pc = "get_attribute_repr"
    /\ max_value_length = 2
    /\ max_length = 3
    /\ {"role", "alt", "aria_label", "class"} \subseteq DOMAIN dom_tree[1].attrib
    /\ tree_repr.val[1].attrib = ("meta" :> "button logo big")

\* ------------------------------------------- sanitizing: what is removed

\* C23: because nodes are visited in reverse document order, one clean_tree
\* pass reaches a collapse fixpoint: in its output no non-text node remains
\* that satisfies the collapse test the code applies (not must-keep, exactly
\* one attribute, no text child, has a parent, at most one child), also in
\* chains of nested wrappers where collapsing a child is what makes the parent
\* eligible.
C23_CollapseFixpoint ==
    pc = "cleaned" =>
        \A i \in Alive(new_tree) :
            new_tree[i].tag # "text" =>
                ~(/\ IdOf(new_tree, i) \notin all_candidate_ids
                  /\ Cardinality(DOMAIN new_tree[i].attrib) = 1
                  /\ \A j \in Children(new_tree, i) : new_tree[j].tag # "text"
                  /\ new_tree[i].parent # 0
                  /\ Cardinality(Children(new_tree, i)) <= 1)

\* A wrapper with two children below the root is removed after both of its
\* children were: only their removal made it eligible.
C23_Witness ==
    /\ pc = "cleaned"
    /\ \E i \in 2..Len(dom_tree) :
          /\ dom_tree[i].tag # "text"
          /\ Cardinality(Children(dom_tree, i)) = 2
          /\ \A j \in Children(dom_tree, i) : dom_tree[j].tag # "text"
          /\ ~new_tree[i].alive
          /\ Children(new_tree, 1) = {}

\* The attached nodes of a tree in depth-first pre-order from node i on, the
\* children of a node taken by index.
RECURSIVE PreOrder(_, _)
RECURSIVE PreOrderOfAll(_, _)
PreOrderOfAll(tree, nodes) ==
    IF Len(nodes) = 0 THEN <<>>
    ELSE PreOrder(tree, Head(nodes)) \o PreOrderOfAll(tree, Tail(nodes))

PreOrder(tree, i) == <<i>> \o PreOrderOfAll(tree, InOrder(Children(tree, i)))

\* C30: clean_tree never removes a non-text node whose backend identifier is
\* in the must-keep set: every such node of the input is in the output with
\* the same identifier, and the surviving nodes keep their relative document
\* order and their ancestor/descendant relations from the input.
C30_MustKeepAndOrder ==
    pc = "cleaned" =>
        /\ \A i \in 1..Len(dom_tree) :
              (dom_tree[i].tag # "text" /\ IdOf(dom_tree, i) \in all_candidate_ids)
              => /\ new_tree[i].alive
                 /\ IdOf(new_tree, i) = IdOf(dom_tree, i)
        /\ \A i, j \in Alive(new_tree) :
              j \in Ancestors(new_tree, i) <=> j \in Ancestors(dom_tree, i)
        /\ PreOrder(new_tree, 1) = InOrder(Alive(new_tree))

\* A must-keep wrapper that has only its identifier stays between a parent
\* and a child, while another wrapper of the tree is collapsed.
C30_Witness ==
    /\ pc = "cleaned"
    /\ \E i, j \in 2..Len(dom_tree) :
          /\ dom_tree[i].attrib = ("backend_node_id" :> ToString(i))
          /\ ToString(i) \in all_candidate_ids
          /\ new_tree[i].alive
          /\ Children(new_tree, i) # {}
          /\ dom_tree[j].tag # "text"
          /\ ~new_tree[j].alive

\* ----------------------------------------------- pruning: the two entries

\* The two results are equivalent: both are the same error, or both are
\* structurally identical trees.
SamePruning(a, b) ==
    IF a.ok /\ b.ok THEN Canon(a.val.new_tree) = Canon(b.val.new_tree)
    ELSE ~a.ok /\ ~b.ok /\ a.err = b.err

C27_EmptyCandidateSet ==
    (pc \in {"prune_tree", "data_prune_tree"} /\ candidate_set = {}) =>
        /\ pruned.ok
        /\ Alive(pruned.val.new_tree) = {1}
        /\ "backend_node_id" \notin DOMAIN pruned.val.new_tree[1].attrib
        /\ pruned.val.new_tree[1].tag = dom_tree[1].tag
        /\ pc = "data_prune_tree" => pruned.val.nodes_to_keep = {}

\* Pruned with no candidate: a root that had an identifier, above an element
\* without identifier, an element with one and a text node.
C27_Witness ==
    /\ pc = "prune_tree"
    /\ candidate_set = {}
    /\ pruned.ok
    /\ "backend_node_id" \in DOMAIN dom_tree[1].attrib
    /\ \E i, j, k \in 2..Len(dom_tree) :
          /\ dom_tree[i].tag = "img"
          /\ dom_tree[j].tag = "div"
          /\ dom_tree[k].tag = "text"

\* ------------------------------------------- the letters of format_options

\* C28: the option letters that format_options emits for one non-empty list
\* of n choices are pairwise distinct: the n element choices and each of the
\* fixed trailing entries (none of the others, scroll, go back to the previous
\* page, go to a URL, search) get different letters, so a letter identifies
\* exactly one entry.
C28_DistinctLetters ==
    (pc = "format_options" /\ Len(choices) >= 1 /\ options.ok) =>
        /\ Len(options.val) = Len(choices) + 5
        /\ \A j, k \in 1..Len(options.val) :
              j # k => options.val[j][1] # options.val[k][1]

\* ------------------------------------------- get_tree_repr: parentheses

\* Largest number of nodes of a tree rendered in the parenthesis notation.
MaxBalanceNodes == 3

\* Nodes of a sanitized snapshot whose text or attribute values hold
\* parentheses or their entities, next to nodes that hold none.
BalancePayloads ==
    { Payload("div", EmptyAttrib, "", FALSE),
      Payload("span", EmptyAttrib, "", TRUE),
      Payload("a", ("title" :> "f(x)"), "", TRUE),
      Payload("text", EmptyAttrib, "Hi", FALSE),
      Payload("text", EmptyAttrib, "a)", FALSE),
      Payload("text", EmptyAttrib, "&#40;b", FALSE) }

InitBalance ==
    /\ pc = "start"
    /\ dom_tree \in TreesOver(BalancePayloads, MaxBalanceNodes)
    /\ CleanIdle /\ PruneIdle /\ ReprIdle /\ LetterIdle /\ FormatIdle

\* tree_repr, id_mapping = get_tree_repr(dom_tree, id_mapping={})
GetTreeReprFresh ==
    /\ pc = "start"
    /\ LET r == get_tree_repr(dom_tree, max_value_length, max_length, EmptyMap)
       IN  /\ tree_repr' = Ok(r.tree)
           /\ repr_text' = TreeReprText(r.tree, FALSE)
           /\ id_mapping' = r.id_mapping
    /\ pc' = "get_tree_repr"
    /\ UNCHANGED <<dom_tree, id_mapping_default, max_value_length, max_length, seen_ids,
                   cleanVarsButTree, pruneVars, letterVars, formatVars>>

NextBalance == GetTreeReprFresh

SpecBalance == InitBalance /\ [][NextBalance]_vars

\* The number of "(" not yet closed after the characters of s from i on, open
\* of them being open before; -1 once a ")" comes that closes none.
RECURSIVE OpenAfter(_, _, _)
OpenAfter(s, i, open) ==
    IF i > Len(s) THEN open
    ELSE IF CharAt(s, i) = "(" THEN OpenAfter(s, i + 1, open + 1)
    ELSE IF CharAt(s, i) # ")" THEN OpenAfter(s, i + 1, open)
    ELSE IF open = 0 THEN -1
    ELSE OpenAfter(s, i + 1, open - 1)

\* C26: with keep_html_brackets off, the text get_tree_repr returns is
\* parenthesis-balanced for every input tree: every "(" is matched by exactly
\* one later ")" and no ")" precedes its "(", also when node text or
\* attribute values hold "(" or ")" or the entities of these characters.
C26_ParenthesesBalanced ==
    pc = "get_tree_repr" => OpenAfter(repr_text, 1, 0) = 0

====
